---- MODULE Spec2Model ----
(***************************************************************************)
(* Document segmentation and structured field extraction of the resume     *)
(* search service: chunkResumeText with its sliding-window fallback        *)
(* (src/lib/services/chunker.ts) and extractFields                         *)
(* (src/lib/services/field-extractor.ts).                                  *)
(*                                                                         *)
(* A text is a sequence of characters, each a string.  Offsets into a text     *)
(* that the code computes (start, end, lastIndexOf) keep the code's        *)
(* 0-based values; positions used by the pattern matchers are 1-based      *)
(* indices into the sequence.                                              *)
(***************************************************************************)
EXTENDS Integers, Sequences, FiniteSets, TLC

\* ------------------------------------------------------------------------
\* Characters and the character classes the patterns use
\* ------------------------------------------------------------------------

NL == "\n"

\* the two characters of the patterns outside ASCII, written as tokens
Bullet == "BULLET"

EnDash == "ENDASH"

LowerLetters == <<"a","b","c","d","e","f","g","h","i","j","k","l","m","n","o","p","q","r","s","t","u","v","w","x","y","z">>

UpperLetters == <<"A","B","C","D","E","F","G","H","I","J","K","L","M","N","O","P","Q","R","S","T","U","V","W","X","Y","Z">>

LowerSet ==
  { "a","b","c","d","e","f","g","h","i","j","k","l","m",
    "n","o","p","q","r","s","t","u","v","w","x","y","z" }

UpperSet ==
  { "A","B","C","D","E","F","G","H","I","J","K","L","M",
    "N","O","P","Q","R","S","T","U","V","W","X","Y","Z" }

DigitSet == {"0","1","2","3","4","5","6","7","8","9"}

\* [a-zA-Z]
LetterSet ==
  { "a","b","c","d","e","f","g","h","i","j","k","l","m",
    "n","o","p","q","r","s","t","u","v","w","x","y","z",
    "A","B","C","D","E","F","G","H","I","J","K","L","M",
    "N","O","P","Q","R","S","T","U","V","W","X","Y","Z" }

\* \s of a JavaScript regular expression, and what String.trim removes
WhiteSet == {" ", "\n", "\t", "\r"}

\* \w of a JavaScript regular expression
WordSet ==
  { "a","b","c","d","e","f","g","h","i","j","k","l","m",
    "n","o","p","q","r","s","t","u","v","w","x","y","z",
    "A","B","C","D","E","F","G","H","I","J","K","L","M",
    "N","O","P","Q","R","S","T","U","V","W","X","Y","Z",
    "0","1","2","3","4","5","6","7","8","9","_" }

\* String.toLowerCase on one character
LowerChar(c) ==
  IF c \in UpperSet
    THEN LowerLetters[CHOOSE k \in 1..Len(UpperLetters) : UpperLetters[k] = c]
    ELSE c

toLowerCase(s) == [k \in 1..Len(s) |-> LowerChar(s[k])]

SetMin(S) == CHOOSE x \in S : \A y \in S : x <= y

SetMax(S) == CHOOSE x \in S : \A y \in S : x >= y

\* body with v as its argument: a const declaration followed by its scope
With(v, body(_)) == body(v)

\* a pattern's result at its leftmost match position, none when it has none
leftmost(ps, at(_), none) == IF ps = {} THEN none ELSE at(SetMin(ps))

\* the position after the longest run of characters of C that starts at p
RunEnd(s, p, C) ==
  CHOOSE k \in p..(Len(s) + 1) :
     /\ (k = Len(s) + 1 \/ s[k] \notin C)
     /\ \A j \in p..(k - 1) : s[j] \in C

\* the position where the longest run of characters of C that ends just
\* before p starts
RunStart(s, p, C) ==
  p - (CHOOSE d \in 0..(p - 1) :
         /\ (d = p - 1 \/ s[p - 1 - d] \notin C)
         /\ \A j \in (p - d)..(p - 1) : s[j] \in C)

\* String.trim: drop the leading and the trailing white space
trim(s) ==
  LET a == RunEnd(s, 1, WhiteSet)
      b == RunStart(s, Len(s) + 1, WhiteSet)
  IN  IF a > Len(s) THEN <<>> ELSE SubSeq(s, a, b - 1)

\* the literal lit stands in s at 1-based position p
LitAt(s, p, lit) ==
  /\ p >= 1
  /\ p + Len(lit) - 1 <= Len(s)
  /\ \A k \in 1..Len(lit) : s[p + k - 1] = lit[k]

\* the same, ignoring letter case (the i flag)
LitAtCI(s, p, lit) ==
  /\ p >= 1
  /\ p + Len(lit) - 1 <= Len(s)
  /\ \A k \in 1..Len(lit) : LowerChar(s[p + k - 1]) = LowerChar(lit[k])

startsWith(s, lit) == LitAt(s, 1, lit)

\* String.includes
includes(s, lit) == \E p \in 1..(Len(s) - Len(lit) + 1) : LitAt(s, p, lit)

\* String.split('\n'): the pieces between the line breaks, at least one
\* the position of the first line break at or after from, Len(s) + 1 if none
nextBreak(s, from) ==
  CHOOSE k \in from..(Len(s) + 1) :
     /\ (k = Len(s) + 1 \/ s[k] = NL)
     /\ \A j \in from..(k - 1) : s[j] # NL

RECURSIVE splitFrom(_, _)
splitFrom(s, from) ==
  LET brk == nextBreak(s, from)
  IN  IF brk = Len(s) + 1
        THEN << SubSeq(s, from, Len(s)) >>
        ELSE << SubSeq(s, from, brk - 1) >> \o splitFrom(s, brk + 1)

split(s) == splitFrom(s, 1)

\* Array.join('\n')
RECURSIVE join(_)
join(ls) ==
  IF Len(ls) = 0 THEN <<>>
  ELSE IF Len(ls) = 1 THEN ls[1]
  ELSE ls[1] \o <<NL>> \o join(Tail(ls))

\* the length of join(ls), without building it
RECURSIVE joinLength(_)
joinLength(ls) ==
  IF Len(ls) = 0 THEN 0
  ELSE IF Len(ls) = 1 THEN Len(ls[1])
  ELSE Len(ls[1]) + 1 + joinLength(Tail(ls))

\* ------------------------------------------------------------------------
\* Section classifier (chunker.ts, sectionKeywords and the header test)
\* ------------------------------------------------------------------------

minChunkLength == 50

maxChunkLength == 500

\* the table of chunkResumeText, in its insertion order (Object.entries)
sectionKeywords ==
  <<
     << <<"e","x","p","e","r","i","e","n","c","e">>, "Experience" >>,
     << <<"w","o","r","k"," ","e","x","p","e","r","i","e","n","c","e">>, "Experience" >>,
     << <<"e","m","p","l","o","y","m","e","n","t">>, "Experience" >>,
     << <<"p","r","o","f","e","s","s","i","o","n","a","l"," ","e","x","p","e","r","i","e","n","c","e">>, "Experience" >>,
     << <<"w","o","r","k"," ","h","i","s","t","o","r","y">>, "Experience" >>,
     << <<"e","m","p","l","o","y","m","e","n","t"," ","h","i","s","t","o","r","y">>, "Experience" >>,
     << <<"c","a","r","e","e","r"," ","h","i","s","t","o","r","y">>, "Experience" >>,
     << <<"p","r","o","f","e","s","s","i","o","n","a","l"," ","h","i","s","t","o","r","y">>, "Experience" >>,
     << <<"e","d","u","c","a","t","i","o","n">>, "Education" >>,
     << <<"a","c","a","d","e","m","i","c">>, "Education" >>,
     << <<"a","c","a","d","e","m","i","c"," ","b","a","c","k","g","r","o","u","n","d">>, "Education" >>,
     << <<"e","d","u","c","a","t","i","o","n","a","l"," ","b","a","c","k","g","r","o","u","n","d">>, "Education" >>,
     << <<"a","c","a","d","e","m","i","c"," ","q","u","a","l","i","f","i","c","a","t","i","o","n","s">>, "Education" >>,
     << <<"q","u","a","l","i","f","i","c","a","t","i","o","n","s">>, "Education" >>,
     << <<"p","r","o","j","e","c","t","s">>, "Projects" >>,
     << <<"p","r","o","j","e","c","t">>, "Projects" >>,
     << <<"p","e","r","s","o","n","a","l"," ","p","r","o","j","e","c","t","s">>, "Projects" >>,
     << <<"s","i","d","e"," ","p","r","o","j","e","c","t","s">>, "Projects" >>,
     << <<"p","r","o","j","e","c","t"," ","e","x","p","e","r","i","e","n","c","e">>, "Projects" >>,
     << <<"p","o","r","t","f","o","l","i","o">>, "Projects" >>,
     << <<"v","o","l","u","n","t","e","e","r">>, "Volunteer" >>,
     << <<"v","o","l","u","n","t","e","e","r"," ","w","o","r","k">>, "Volunteer" >>,
     << <<"v","o","l","u","n","t","e","e","r","i","n","g">>, "Volunteer" >>,
     << <<"v","o","l","u","n","t","e","e","r"," ","e","x","p","e","r","i","e","n","c","e">>, "Volunteer" >>,
     << <<"c","o","m","m","u","n","i","t","y"," ","s","e","r","v","i","c","e">>, "Volunteer" >>,
     << <<"v","o","l","u","n","t","e","e","r"," ","a","c","t","i","v","i","t","i","e","s">>, "Volunteer" >>,
     << <<"s","k","i","l","l","s">>, "Skills" >>,
     << <<"t","e","c","h","n","i","c","a","l"," ","s","k","i","l","l","s">>, "Skills" >>,
     << <<"c","o","r","e"," ","s","k","i","l","l","s">>, "Skills" >>,
     << <<"c","o","m","p","e","t","e","n","c","i","e","s">>, "Skills" >>,
     << <<"t","e","c","h","n","i","c","a","l"," ","c","o","m","p","e","t","e","n","c","i","e","s">>, "Skills" >>,
     << <<"p","r","o","f","i","c","i","e","n","c","i","e","s">>, "Skills" >>,
     << <<"e","x","p","e","r","t","i","s","e">>, "Skills" >>,
     << <<"s","u","m","m","a","r","y">>, "Summary" >>,
     << <<"p","r","o","f","e","s","s","i","o","n","a","l"," ","s","u","m","m","a","r","y">>, "Summary" >>,
     << <<"s","u","m","m","a","r","y"," ","o","f"," ","q","u","a","l","i","f","i","c","a","t","i","o","n","s">>, "Summary" >>,
     << <<"o","b","j","e","c","t","i","v","e">>, "Summary" >>,
     << <<"c","a","r","e","e","r"," ","o","b","j","e","c","t","i","v","e">>, "Summary" >>,
     << <<"p","r","o","f","i","l","e">>, "Summary" >>,
     << <<"p","r","o","f","e","s","s","i","o","n","a","l"," ","p","r","o","f","i","l","e">>, "Summary" >>,
     << <<"a","b","o","u","t">>, "Summary" >>,
     << <<"a","b","o","u","t"," ","m","e">>, "Summary" >>,
     << <<"c","o","n","t","a","c","t">>, "Contact" >>,
     << <<"c","o","n","t","a","c","t"," ","i","n","f","o","r","m","a","t","i","o","n">>, "Contact" >>,
     << <<"c","o","n","t","a","c","t"," ","d","e","t","a","i","l","s">>, "Contact" >>,
     << <<"c","e","r","t","i","f","i","c","a","t","i","o","n","s">>, "Certifications" >>,
     << <<"c","e","r","t","i","f","i","c","a","t","i","o","n">>, "Certifications" >>,
     << <<"a","w","a","r","d","s">>, "Awards" >>,
     << <<"h","o","n","o","r","s">>, "Awards" >>,
     << <<"p","u","b","l","i","c","a","t","i","o","n","s">>, "Publications" >>,
     << <<"l","a","n","g","u","a","g","e","s">>, "Languages" >>,
     << <<"i","n","t","e","r","e","s","t","s">>, "Interests" >>,
     << <<"h","o","b","b","i","e","s">>, "Interests" >>
  >>

\* \b on either side of the occurrence of kw at position p of s: every
\* keyword begins and ends with a word character
wordBounded(s, p, kw) ==
  /\ (p = 1 \/ s[p - 1] \notin WordSet)
  /\ (p + Len(kw) - 1 = Len(s) \/ s[p + Len(kw)] \notin WordSet)

\* new RegExp('\\b' + keyword + '\\b', 'i').test(lowerLine) on a short line
containsAsWord(lowerLine, kw) ==
  /\ Len(lowerLine) < 50
  /\ \E p \in 1..(Len(lowerLine) - Len(kw) + 1) :
        wordBounded(lowerLine, p, kw) /\ LitAt(lowerLine, p, kw)

\* keyword kw classifies the lower-cased line as a header; the comparisons
\* of the code with the upper-cased keyword never hold of a lower-cased
\* line, every keyword having a letter
keywordMatches(lowerLine, kw) ==
  LET isExactMatch == lowerLine = kw
      startsWithKeyword == \/ startsWith(lowerLine, kw \o <<":">>)
                           \/ startsWith(lowerLine, kw \o <<" ">>)
  IN  isExactMatch \/ startsWithKeyword \/ containsAsWord(lowerLine, kw)

\* the index in the table of the first keyword that matches, 0 when none does
headerIndex(line) ==
  LET lowerLine == toLowerCase(line)
      hits == {k \in 1..Len(sectionKeywords) : keywordMatches(lowerLine, sectionKeywords[k][1])}
  IN  IF hits = {} THEN 0 ELSE SetMin(hits)

isSectionHeader(line) == headerIndex(line) # 0

\* a bullet glyph or a numbered-list marker followed by white space
isBullet(line) ==
  \/ /\ Len(line) >= 2
     /\ line[1] \in {Bullet, "-", "*", "+"}
     /\ line[2] \in WhiteSet
  \/ LET digits == {k \in 1..Len(line) : \A j \in 1..k : line[j] \in DigitSet}
     IN  /\ digits # {}
         /\ Len(line) >= SetMax(digits) + 2
         /\ line[SetMax(digits) + 1] = "."
         /\ line[SetMax(digits) + 2] \in WhiteSet

\* ------------------------------------------------------------------------
\* Pattern matching helpers
\* ------------------------------------------------------------------------

\* an absent (null) string value
null == <<"null">>

\* an absent (null) section tag
noSection == "null"

\* \d{4} matches at position p
isYear(s, p) == p >= 1 /\ p + 3 <= Len(s) /\ \A k \in 0..3 : s[p + k] \in DigitSet

Years(s) == {p \in 1..Len(s) : s[p] \in DigitSet /\ isYear(s, p)}

noMatch == [ok |-> FALSE, g1 |-> null, g2 |-> null]

\* ------------------------------------------------------------------------
\* extractDates (chunker.ts): six patterns, the first that matches wins;
\* each gives match[1] and match[2] of its leftmost match
\* ------------------------------------------------------------------------

monthNames ==
  << <<"J","a","n","u","a","r","y">>,
     <<"F","e","b","r","u","a","r","y">>,
     <<"M","a","r","c","h">>,
     <<"A","p","r","i","l">>,
     <<"M","a","y">>,
     <<"J","u","n","e">>,
     <<"J","u","l","y">>,
     <<"A","u","g","u","s","t">>,
     <<"S","e","p","t","e","m","b","e","r">>,
     <<"O","c","t","o","b","e","r">>,
     <<"N","o","v","e","m","b","e","r">>,
     <<"D","e","c","e","m","b","e","r">> >>

Present == <<"P","r","e","s","e","n","t">>

Current == <<"C","u","r","r","e","n","t">>

\* \s*[-–]\s* from position e: the position after it, 0 when it does not match
dashSep(s, e) ==
  With(RunEnd(s, e, WhiteSet), LAMBDA q :
    IF q <= Len(s) /\ s[q] \in {"-", EnDash} THEN RunEnd(s, q + 1, WhiteSet) ELSE 0)

\* a variant that matches no "to"
toSepNever(s, e) == 0

\* \s+to\s+ from position e (i flag)
toSep(s, e) ==
  With(RunEnd(s, e, WhiteSet), LAMBDA q :
    IF q > e /\ LitAtCI(s, q, <<"t","o">>)
      THEN With(RunEnd(s, q + 2, WhiteSet), LAMBDA r : IF r > q + 2 THEN r ELSE 0)
      ELSE 0)

\* Present|Current at position r, with or without the i flag
presentAt(s, r, ci) ==
  IF ci THEN LitAtCI(s, r, Present) \/ LitAtCI(s, r, Current)
        ELSE LitAt(s, r, Present) \/ LitAt(s, r, Current)

\* \w{lo,hi}\s+\d{4} at position r: the position after it, 0 when no match
wordYearAt(s, r, lo, hi) ==
  With(RunEnd(s, r, WordSet), LAMBDA we :
    With(RunEnd(s, we, WhiteSet), LAMBDA y :
      IF we - r >= lo /\ we - r <= hi /\ y > we /\ isYear(s, y) THEN y + 4 ELSE 0))

\* the month name (i flag) that ends just before position w: its length, or 0
monthEndingAt(s, w) ==
  With({k \in 1..Len(monthNames) : LitAtCI(s, w - Len(monthNames[k]), monthNames[k])},
       LAMBDA ms : IF ms = {} THEN 0 ELSE Len(monthNames[CHOOSE k \in ms : TRUE]))

monthYearAt(s, r) ==
  \E k \in 1..Len(monthNames) :
     /\ LitAtCI(s, r, monthNames[k])
     /\ \E y \in {RunEnd(s, r + Len(monthNames[k]), WhiteSet)} :
           y > r + Len(monthNames[k]) /\ isYear(s, y)

\* (Month)\s+(\d{4})\s*[-–]\s*((?:Month)\s+\d{4}|Present|Current), i flag:
\* group 1 is the month name alone and group 2 the first year
datePattern1(s) ==
  leftmost({y \in Years(s) :
              \E w \in {RunStart(s, y, WhiteSet)} :
                 /\ w < y
                 /\ monthEndingAt(s, w) > 0
                 /\ \E r \in {dashSep(s, y + 4)} :
                       r > 0 /\ (monthYearAt(s, r) \/ presentAt(s, r, TRUE))},
           LAMBDA y : With(RunStart(s, y, WhiteSet), LAMBDA w :
             [ok |-> TRUE,
              g1 |-> SubSeq(s, w - monthEndingAt(s, w), w - 1),
              g2 |-> SubSeq(s, y, y + 3)]),
           noMatch)

\* the text of the end group (\w{lo,hi}\s+\d{4}|Present|Current) at r, i flag
wordYearOrPresent(s, r, lo, hi) ==
  With(wordYearAt(s, r, lo, hi), LAMBDA e :
    IF e > 0 THEN SubSeq(s, r, e - 1)
    ELSE IF presentAt(s, r, TRUE) THEN SubSeq(s, r, r + 6)
    ELSE null)

\* the start group (\w{lo,hi}\s+\d{4}) whose year stands at y: where it
\* starts (the leftmost start the pattern allows), 0 when there is none
wordYearStart(s, y, lo, hi) ==
  With(RunStart(s, y, WhiteSet), LAMBDA w :
    With(RunStart(s, w, WordSet), LAMBDA ws :
      IF w < y /\ w - ws >= lo
        THEN (IF w - ws > hi THEN w - hi ELSE ws)
        ELSE 0))

\* a pattern (\w{lo,hi}\s+\d{4}) sep (\w{lo,hi}\s+\d{4}|Present|Current)
\* matches with its first year at y, r being where the end group begins
wordYearRangeAt(s, y, r, lo, hi) ==
  wordYearStart(s, y, lo, hi) > 0 /\ r > 0 /\ wordYearOrPresent(s, r, lo, hi) # null

\* the groups of that match
wordYearRange(s, y, r, lo, hi) ==
  [ok |-> TRUE,
   g1 |-> SubSeq(s, wordYearStart(s, y, lo, hi), y + 3),
   g2 |-> wordYearOrPresent(s, r, lo, hi)]

\* (\w{3,9}\s+\d{4})\s*[-–]\s*(\w{3,9}\s+\d{4}|Present|Current), i flag
datePattern2(s) ==
  leftmost({y \in Years(s) : wordYearRangeAt(s, y, dashSep(s, y + 4), 3, 9)},
           LAMBDA y : wordYearRange(s, y, dashSep(s, y + 4), 3, 9),
           noMatch)

\* the end group (\d{4}|Present|Current) at position r, no i flag
yearOrPresent(s, r) ==
  IF isYear(s, r) THEN SubSeq(s, r, r + 3)
  ELSE IF presentAt(s, r, FALSE) THEN SubSeq(s, r, r + 6)
  ELSE null

\* (\d{4})\s*[-–]\s*(\d{4}|Present|Current), no i flag
datePattern3(s) ==
  leftmost({y \in Years(s) :
              \E r \in {dashSep(s, y + 4)} : r > 0 /\ yearOrPresent(s, r) # null},
           LAMBDA y : [ok |-> TRUE,
                       g1 |-> SubSeq(s, y, y + 3),
                       g2 |-> yearOrPresent(s, dashSep(s, y + 4))],
           noMatch)

\* (\w+\s+\d{4})\s+to\s+(\w+\s+\d{4}|Present|Current), i flag
datePattern4(s) ==
  leftmost({y \in Years(s) : wordYearRangeAt(s, y, toSep(s, y + 4), 1, Len(s))},
           LAMBDA y : wordYearRange(s, y, toSep(s, y + 4), 1, Len(s)),
           noMatch)

\* \d{1,2}\/\d{4} whose slash stands at position sl: where it starts, or 0
monthSlashStart(s, sl) ==
  IF sl >= 2 /\ sl <= Len(s) /\ s[sl] = "/" /\ s[sl - 1] \in DigitSet /\ isYear(s, sl + 1)
    THEN (IF sl >= 3 /\ s[sl - 2] \in DigitSet THEN sl - 2 ELSE sl - 1)
    ELSE 0

\* \d{1,2}\/\d{4} at position r: the position after it, or 0
monthSlashAt(s, r) ==
  IF r + 1 <= Len(s) /\ s[r] \in DigitSet /\ s[r + 1] \in DigitSet /\ r + 2 <= Len(s)
     /\ s[r + 2] = "/" /\ isYear(s, r + 3) THEN r + 7
  ELSE IF r + 1 <= Len(s) /\ s[r] \in DigitSet /\ s[r + 1] = "/" /\ isYear(s, r + 2) THEN r + 6
  ELSE 0

\* the end group (\d{1,2}\/\d{4}|Present|Current) at position r, no i flag
monthSlashOrPresent(s, r) ==
  With(monthSlashAt(s, r), LAMBDA e :
    IF e > 0 THEN SubSeq(s, r, e - 1)
    ELSE IF presentAt(s, r, FALSE) THEN SubSeq(s, r, r + 6)
    ELSE null)

\* (\d{1,2}\/\d{4})\s*[-–]\s*(\d{1,2}\/\d{4}|Present|Current), no i flag
datePattern5(s) ==
  leftmost({sl \in 1..Len(s) :
              /\ s[sl] = "/"
              /\ monthSlashStart(s, sl) > 0
              /\ \E r \in {dashSep(s, sl + 5)} : r > 0 /\ monthSlashOrPresent(s, r) # null},
           LAMBDA sl : [ok |-> TRUE,
                        g1 |-> SubSeq(s, monthSlashStart(s, sl), sl + 4),
                        g2 |-> monthSlashOrPresent(s, dashSep(s, sl + 5))],
           noMatch)

\* (\w+\s+\d{4})\s*[-–]\s*(Present|Current), i flag
datePattern6(s) ==
  leftmost({y \in Years(s) :
              /\ wordYearStart(s, y, 1, Len(s)) > 0
              /\ \E r \in {dashSep(s, y + 4)} : r > 0 /\ presentAt(s, r, TRUE)},
           LAMBDA y : With(dashSep(s, y + 4), LAMBDA r :
             [ok |-> TRUE,
              g1 |-> SubSeq(s, wordYearStart(s, y, 1, Len(s)), y + 3),
              g2 |-> SubSeq(s, r, r + 6)]),
           noMatch)

\* the match m if it is one, the match of the later patterns otherwise
orElse(m, later) == IF m.ok THEN m ELSE later

\* the first pattern, in the order of the list, that matches
firstDateMatch(s) ==
  orElse(datePattern1(s),
  orElse(datePattern2(s),
  orElse(datePattern3(s),
  orElse(datePattern4(s),
  orElse(datePattern5(s), datePattern6(s))))))

\* endDate === 'Present' || endDate === 'Current' ? null : endDate
endDateOf(endDate) == IF endDate = Present \/ endDate = Current THEN null ELSE endDate

\* the dates of a match
datesOf(match) ==
  IF match.ok
    THEN [start_date |-> trim(match.g1), end_date |-> endDateOf(trim(match.g2))]
    ELSE [start_date |-> null, end_date |-> null]

\* every pattern contains \d{4}: without four digits in a row none matches
extractDates(chunkText) ==
  datesOf(IF Years(chunkText) = {} THEN noMatch ELSE firstDateMatch(chunkText))

\* ------------------------------------------------------------------------
\* extractCompany (chunker.ts): four patterns tried in order; a pattern's
\* leftmost match is taken, and rejected candidates pass to the next pattern
\* ------------------------------------------------------------------------

companyPrefixes ==
  << <<"a","t">>, <<"@">>, <<"f","o","r">>, <<"w","i","t","h">>, <<"c","o","m","p","a","n","y",":">>, <<"o","r","g","a","n","i","z","a","t","i","o","n",":">> >>

companySuffixes ==
  << <<"I","n","c">>,
     <<"L","L","C">>,
     <<"C","o","r","p">>,
     <<"L","t","d">>,
     <<"C","o","m","p","a","n","y">>,
     <<"T","e","c","h","n","o","l","o","g","i","e","s">>,
     <<"S","y","s","t","e","m","s">>,
     <<"S","o","l","u","t","i","o","n","s">>,
     <<"G","r","o","u","p">> >>

\* [a-zA-Z0-9\s&.,-]
CompanySet ==
  { "a","b","c","d","e","f","g","h","i","j","k","l","m",
    "n","o","p","q","r","s","t","u","v","w","x","y","z",
    "A","B","C","D","E","F","G","H","I","J","K","L","M",
    "N","O","P","Q","R","S","T","U","V","W","X","Y","Z",
    "0","1","2","3","4","5","6","7","8","9",
    " ","\n","\t","\r","&",".",",","-" }

lineStarts(s) == {p \in 1..Len(s) : p = 1 \/ s[p - 1] = NL}

\* $ under the m flag: the end of the text or of a line
atLineEnd(s, p) == p = Len(s) + 1 \/ (p <= Len(s) /\ s[p] = NL)

\* (?:at|@|for|with|company:|organization:)\s+([A-Z][...]+?)(?:\s|$|,|\.|;)
\* with the i flag: the group after a prefix that ends just before position
\* e; the group is lazy and so ends at the first terminator; null when the
\* pattern does not match there
companyGroupAfter(s, e) ==
  With(RunEnd(s, e, WhiteSet), LAMBDA q :
    IF q > e /\ q <= Len(s) /\ s[q] \in LetterSet
      THEN With({k \in (q + 2)..RunEnd(s, q + 1, CompanySet) :
                   k = Len(s) + 1 \/ s[k] \in {" ", "\n", "\t", "\r", ",", ".", ";"}},
                LAMBDA ends : IF ends = {} THEN null ELSE SubSeq(s, q, SetMin(ends) - 1))
      ELSE null)

\* the same for the prefix that stands at position p, null when none does
companyAfterPrefix(s, p) ==
  With({k \in 1..Len(companyPrefixes) : LitAtCI(s, p, companyPrefixes[k])}, LAMBDA pres :
    IF pres = {} THEN null
    ELSE companyGroupAfter(s, p + Len(companyPrefixes[CHOOSE k \in pres : TRUE])))

\* the characters a prefix can begin with
prefixInitials == {"a", "@", "f", "w", "c", "o"}

companyPattern1(s) ==
  leftmost({p \in 1..Len(s) :
            LowerChar(s[p]) \in prefixInitials /\ companyAfterPrefix(s, p) # null},
         LAMBDA p : companyAfterPrefix(s, p),
         null)

\* the positions p at which a group [A-Z][...]{2,40} that starts at p0 can
\* end (p is the position after the group)
isGroup(s, p0, p) ==
  /\ p0 >= 1
  /\ p <= Len(s) + 1
  /\ \A k \in (p0 + 1)..(p - 1) : s[k] \in CompanySet

groupEnds(s, p0) == {p \in (p0 + 3)..(p0 + 41) : isGroup(s, p0, p)}

\* the greedy group that starts at p0, given the positions where it may end
longestGroup(s, p0, ends) == SubSeq(s, p0, SetMax(ends) - 1)

\* \s*(?:Inc|...|Group)?$ matches from position p (m flag, no i flag)
suffixToLineEnd(s, p) ==
  \E we \in {RunEnd(s, p, WhiteSet)} :
     \/ \E k \in p..we : atLineEnd(s, k)
     \/ \E j \in 1..Len(companySuffixes) :
           /\ LitAt(s, we, companySuffixes[j])
           /\ atLineEnd(s, we + Len(companySuffixes[j]))

\* where the group of pattern 2 that starts at p0 may end
lineGroupEnds(s, p0) == {p \in groupEnds(s, p0) : suffixToLineEnd(s, p)}

\* ^([A-Z][...]{2,40})\s*(?:Inc|...|Group)?$ with the m flag
companyPattern2(s) ==
  leftmost({p0 \in lineStarts(s) : s[p0] \in UpperSet /\ lineGroupEnds(s, p0) # {}},
         LAMBDA p0 : longestGroup(s, p0, lineGroupEnds(s, p0)),
         null)

\* the characters a suffix can begin with, in lower case
suffixInitials == {"i", "l", "c", "t", "s", "g"}

\* a suffix (i flag) followed by \b stands at position u
suffixAt(s, u) ==
  LowerChar(s[u]) \in suffixInitials /\
  \E j \in 1..Len(companySuffixes) :
     /\ LitAtCI(s, u, companySuffixes[j])
     /\ \E a \in {u + Len(companySuffixes[j])} : a = Len(s) + 1 \/ s[a] \notin WordSet

\* where a group may end before a suffix: white space alone separates them
suffixGaps(s) == UNION {RunStart(s, u, WhiteSet)..u : u \in {u \in 1..Len(s) : suffixAt(s, u)}}

\* where the group of pattern 3 that starts at p0 may end
suffixGroupEnds(s, p0, gaps) == {p \in groupEnds(s, p0) : p \in gaps}

\* pattern 3 given the gaps before the suffixes of the text
companyBeforeSuffix(s, gaps) ==
  leftmost({p0 \in UNION {(p - 41)..(p - 3) : p \in gaps} :
            p0 >= 1 /\ s[p0] \in LetterSet /\ suffixGroupEnds(s, p0, gaps) # {}},
         LAMBDA p0 : longestGroup(s, p0, suffixGroupEnds(s, p0, gaps)),
         null)

\* ([A-Z][...]{2,40})\s*(?:Inc|...|Group)\b with the i flag
companyPattern3(s) == companyBeforeSuffix(s, suffixGaps(s))

\* where the group of pattern 4 that starts at p0 may end
wordGroupEnds(s, p0) == {p \in groupEnds(s, p0) : p = Len(s) + 1 \/ s[p] \in WhiteSet}

\* ^([A-Z][...]{2,40})(?:\s|$) with the m flag
companyPattern4(s) ==
  leftmost({p0 \in lineStarts(s) : s[p0] \in UpperSet /\ wordGroupEnds(s, p0) # {}},
         LAMBDA p0 : longestGroup(s, p0, wordGroupEnds(s, p0)),
         null)

\* the filter on the trimmed candidate, lower being its lower-case form
isAccepted(company, lower) ==
  /\ Len(company) > 2
  /\ Len(company) < 50
  /\ ~includes(lower, <<"u","n","i","v","e","r","s","i","t","y">>)
  /\ ~includes(lower, <<"c","o","l","l","e","g","e">>)
  /\ ~includes(lower, <<"s","c","h","o","o","l">>)

\* the trimmed candidate if it passes the filter, null when it is rejected
acceptedTrimmed(company) ==
  IF isAccepted(company, toLowerCase(company)) THEN company ELSE null

\* the result of a pattern whose match[1] is m (null: no match)
acceptedCompany(m) == IF m = null THEN null ELSE acceptedTrimmed(trim(m))

\* the company c if there is one, that of the later patterns otherwise
orLater(c, later) == IF c # null THEN c ELSE later

extractCompany(chunkText) ==
  orLater(acceptedCompany(companyPattern1(chunkText)),
  orLater(acceptedCompany(companyPattern2(chunkText)),
  orLater(acceptedCompany(companyPattern3(chunkText)),
          acceptedCompany(companyPattern4(chunkText)))))

\* ------------------------------------------------------------------------
\* extractName and extractEmail (field-extractor.ts)
\* ------------------------------------------------------------------------

\* the positions where the words of the line l begin
wordStarts(l) == {k \in 1..Len(l) : l[k] \notin WhiteSet /\ (k = 1 \/ l[k - 1] \in WhiteSet)}

\* two to four words, each a capital followed by lower-case letters
isNameShape(l, starts) ==
  /\ Cardinality(starts) >= 2
  /\ Cardinality(starts) <= 4
  /\ \A k \in 1..Len(l) :
        \/ l[k] \in WhiteSet
        \/ k \in starts /\ l[k] \in UpperSet /\ k < Len(l) /\ l[k + 1] \in LowerSet
        \/ k \notin starts /\ l[k] \in LowerSet

\* ^([A-Z][a-z]+(?:\s+[A-Z][a-z]+){1,3})$ on a trimmed line
isNameLine(l) == isNameShape(l, wordStarts(l))

\* .slice(0, 5)
firstFive(all) == SubSeq(all, 1, IF Len(all) < 5 THEN Len(all) ELSE 5)

trimAll(ls) == [k \in 1..Len(ls) |-> trim(ls[k])]

\* the trimmed non-blank lines among the first five lines of the text
nameLines(text) ==
  SelectSeq(trimAll(firstFive(split(text))), LAMBDA line : Len(line) > 0)

\* the first line of name shape, else the first line if it is of fitting length
nameAmong(ls) ==
  With({k \in 1..Len(ls) : isNameLine(ls[k]) /\ ~includes(ls[k], <<"@">>)}, LAMBDA named :
    IF named # {} THEN ls[SetMin(named)]
    ELSE IF Len(ls) > 0 /\ Len(ls[1]) > 2 /\ Len(ls[1]) < 50 THEN ls[1]
    ELSE null)

extractName(text) == nameAmong(nameLines(text))

\* [a-zA-Z0-9._-] and [a-zA-Z0-9_-]
EmailSet ==
  { "a","b","c","d","e","f","g","h","i","j","k","l","m",
    "n","o","p","q","r","s","t","u","v","w","x","y","z",
    "A","B","C","D","E","F","G","H","I","J","K","L","M",
    "N","O","P","Q","R","S","T","U","V","W","X","Y","Z",
    "0","1","2","3","4","5","6","7","8","9",".","_","-" }

EmailTldSet ==
  { "a","b","c","d","e","f","g","h","i","j","k","l","m",
    "n","o","p","q","r","s","t","u","v","w","x","y","z",
    "A","B","C","D","E","F","G","H","I","J","K","L","M",
    "N","O","P","Q","R","S","T","U","V","W","X","Y","Z",
    "0","1","2","3","4","5","6","7","8","9","_","-" }

\* the dots of the domain run (a, de) that a top-level-domain character follows
domainDots(s, a, de) ==
  {d \in (a + 2)..(de - 1) : s[d] = "." /\ d + 1 <= Len(s) /\ s[d + 1] \in EmailTldSet}

\* the address from ls whose domain is cut at the last of the dots
emailFrom(s, ls, dots) == SubSeq(s, ls, RunEnd(s, SetMax(dots) + 1, EmailTldSet) - 1)

\* the address whose local part begins at ls, a being the position of the @
emailWithLocal(s, a, ls, dots) == IF ls < a /\ dots # {} THEN emailFrom(s, ls, dots) ELSE null

\* the address around the @ at position a, null when the pattern fails there:
\* the local part is the run before it, the domain run is cut at its last dot
\* that a top-level-domain character follows
emailAround(s, a) ==
  emailWithLocal(s, a, RunStart(s, a, EmailSet), domainDots(s, a, RunEnd(s, a + 1, EmailSet)))

extractEmail(text) ==
  leftmost({a \in 1..Len(text) : text[a] = "@" /\ emailAround(text, a) # null},
         LAMBDA a : emailAround(text, a),
         null)

\* the value of a decimal digit
digitValue(c) ==
  CHOOSE v \in 0..9 : <<"0","1","2","3","4","5","6","7","8","9">>[v + 1] = c

\* parseInt(ds, 10) of a string of decimal digits
RECURSIVE parseInt(_)
parseInt(ds) ==
  IF Len(ds) = 0 THEN 0
  ELSE 10 * parseInt(SubSeq(ds, 1, Len(ds) - 1)) + digitValue(ds[Len(ds)])

\* a variant of \+? that takes no plus sign
afterPlusNever(s, q) == q

\* \+? from position q: the position after it
afterPlus(s, q) == IF q <= Len(s) /\ s[q] = "+" THEN q + 1 ELSE q

\* s? from position q (i flag): the position after it
afterPluralS(s, q) == IF q <= Len(s) /\ s[q] \in {"s", "S"} THEN q + 1 ELSE q

\* (?:of\s*)? from position q (i flag): the position after it
afterOf(s, q) == IF LitAtCI(s, q, <<"o","f">>) THEN RunEnd(s, q + 2, WhiteSet) ELSE q

\* years?\s*(?:of\s*)?(?:experience|exp) matches from position q (i flag)
yearsOfExperienceAt(s, q) ==
  /\ LitAtCI(s, q, <<"y","e","a","r">>)
  /\ LitAtCI(s, afterOf(s, RunEnd(s, afterPluralS(s, q + 4), WhiteSet)), <<"e","x","p">>)

\* (\d+)\+?\s*years?\s*(?:of\s*)?(?:experience|exp) matches with its
\* digits beginning at position p (i flag); the digits run to the end of
\* the run of digits at p
experienceAt(s, p) ==
  s[p] \in DigitSet /\
  yearsOfExperienceAt(s, RunEnd(s, afterPlus(s, RunEnd(s, p, DigitSet)), WhiteSet))

\* match[1] of the match whose digits begin at p
experienceDigits(s, p) == SubSeq(s, p, RunEnd(s, p, DigitSet) - 1)

\* an absent (null) number
noNumber == -1

extractExperienceYears(text) ==
  leftmost({p \in 1..Len(text) : experienceAt(text, p)},
           LAMBDA p : parseInt(experienceDigits(text, p)),
           noNumber)

\* the fields of extractFields that the properties below are about
extractFields(text) ==
  [name |-> extractName(text), email |-> extractEmail(text),
   experience_years |-> extractExperienceYears(text)]

\* ------------------------------------------------------------------------
\* Input texts
\* ------------------------------------------------------------------------

\* the bounds of the input space
MaxLines == 3

ShortLen == 25

BulletLen == 249

LongHeaderLen == 300

PadLen == 600

ScenarioLen == 2000

ParagraphCount == 12

ParagraphLen == 45

ShortTail == 15

Rep(c, n) == [k \in 1..n |-> c]

\* the lines the input texts are made of: a blank line, a header, a header
\* line as long as a paragraph, a short line between blanks, a line of
\* exactly the minimum chunk length, a bullet, and a line longer than the
\* maximum chunk length
lineLibrary ==
  { <<>>,
    <<"s","k","i","l","l","s">>,
    <<"s","k","i","l","l","s"," ">> \o Rep("x", LongHeaderLen) \o <<".">>,
    <<" ">> \o Rep("x", ShortLen) \o <<" ">>,
    Rep("y", minChunkLength),
    <<"-"," ">> \o Rep("z", BulletLen),
    Rep("w", maxChunkLength + 1) }

RECURSIVE lineSeqs(_)
lineSeqs(n) ==
  IF n = 0 THEN {<<>>}
  ELSE LET shorter == lineSeqs(n - 1)
       IN  shorter \cup {Append(ls, l) : ls \in {x \in shorter : Len(x) = n - 1}, l \in lineLibrary}

\* the first end-to-end scenario of the specification
scenarioLines ==
  << << "J","o","h","n"," ","S","m","i","t","h" >>,
     << "j","o","h","n","@","x",".","c","o","m" >>,
     <<  >>,
     << "E","x","p","e","r","i","e","n","c","e" >>,
     << "A","c","m","e"," ","C","o","r","p" >>,
     << "J","a","n"," ","2","0","2","0"," ","-"," ","P","r","e","s","e",
        "n","t" >>,
     << "B","u","i","l","t"," ","t","h","e"," ","t","h","i","n","g",".",
        " ","B","u","i","l","t"," ","a","n","o","t","h","e","r"," ","t",
        "h","i","n","g","."," ","B","u","i","l","t"," ","a"," ","t","h",
        "i","r","d"," ","t","h","i","n","g"," ","t","h","a","t"," ","t",
        "a","k","e","s"," ","t","h","i","s"," ","l","i","n","e"," ","p",
        "a","s","t"," ","f","i","f","t","y"," ","c","h","a","r","a","c",
        "t","e","r","s"," ","e","a","s","i","l","y","." >> >>

scenarioText == join(scenarioLines)

\* a text of ScenarioLen characters without any line break, the same with
\* one line break in the middle, and a text that is white space but for
\* its first and its last character
unbrokenText == Rep("w", ScenarioLen)

twoLongLines == join(<< Rep("w", ScenarioLen \div 2), Rep("w", ScenarioLen - ScenarioLen \div 2 - 1) >>)

paddedText == join(<< <<"x">> \o Rep(" ", PadLen), <<"x">> >>)

\* ParagraphCount one-line paragraphs of ParagraphLen characters, a blank
\* line between two of them
shortParagraphs ==
  join([k \in 1..(2 * ParagraphCount - 1) |->
          IF k % 2 = 1 THEN Rep("p", ParagraphLen) ELSE <<>>])

\* two sections, each a header line and a line of the minimum chunk length
twoSectionsText ==
  join(<< <<"s","k","i","l","l","s">>, Rep("y", minChunkLength),
          <<"e","d","u","c","a","t","i","o","n">>, Rep("z", minChunkLength) >>)

\* for every synonym of the table, the synonym as a line followed by a line
\* of the minimum chunk length
synonymTexts ==
  { join(<< sectionKeywords[k][1], Rep("y", minChunkLength) >>) :
      k \in 1..Len(sectionKeywords) }

\* a header line that ends in a period at offset maxChunkLength
periodAtWindowEnd ==
  <<"s","k","i","l","l","s"," ">> \o Rep("x", maxChunkLength - 7) \o << "." >>

\* a name after five blank lines, and a name as the fifth of five lines
\* that blank lines separate
nameAfterBlankLines ==
  { join(<< <<>>, <<>>, <<>>, <<>>, <<>>, scenarioLines[1] >>),
    join(<< <<"c","v">>, <<>>, <<"2","0","2","4">>, <<>>, scenarioLines[2], <<>>,
            <<"-">>, scenarioLines[1] >>) }

\* a header line that the segmenter cuts into a window and a tail shorter
\* than the minimum chunk length
headerWithShortTail ==
  <<"s","k","i","l","l","s"," ">> \o Rep("x", maxChunkLength - 7 - ShortTail)

\* a header line of exactly the minimum chunk length
minimalHeaderText == <<"s","k","i","l","l","s"," ">> \o Rep("x", minChunkLength - 7)

\* the phrase of the experience scenario
fivePlusYears ==
  << "5","+"," ","y","e","a","r","s"," ","o","f"," ","e","x","p","e","r","i","e",
     "n","c","e" >>

\* texts that contain the phrase: alone, after words, after a digit, after
\* an earlier mention of years of experience, and each with words after it
experienceTexts ==
  { pre \o fivePlusYears \o post :
      pre \in { <<>>,
                << "O","v","e","r"," " >>,
                << "1" >>,
                << "3"," ","y","e","a","r","s"," ","e","x","p"," ","a","n","d"," " >> },
      post \in { <<>>, << " ","i","n"," ","s","a","l","e","s" >> } }

\* the date text of the "to" scenario
marchToJune ==
  << "M","a","r","c","h"," ","2","0","1","9"," ","t","o"," ","J","u","n",
     "e"," ","2","0","2","1" >>

\* a sentence without dates, one with a range of years, and an earlier
\* "to" range
plainSentence ==
  << "r","a","n"," ","t","h","e"," ","p","l","a","t","f","o","r","m"," ",
     "t","e","a","m"," ","f","o","r"," ","t","h","e"," ","w","h","o","l",
     "e"," ","p","e","r","i","o","d" >>

yearRangeSentence ==
  << "R","a","n"," ","t","h","e"," ","p","l","a","t","f","o","r","m"," ",
     "t","e","a","m",","," ","2","0","1","5"," ","-"," ","2","0","1","6",
     " ","a","n","d"," ","l","a","t","e","r"," ","a","g","a","i","n","." >>

earlierToRange ==
  << "M","a","y"," ","2","0","1","8"," ","t","o"," ","P","r","e","s","e",
     "n","t",","," ","a","n","d"," ","b","e","f","o","r","e"," ","i","t",
     " " >>

\* a range that ends in the word present in lower case, and a range of
\* full month names, each before a sentence without dates
janToLowerPresent ==
  << "J","a","n"," ","2","0","2","0"," ","-"," ","p","r","e","s","e","n","t" >>

januaryToDecember ==
  << "J","a","n","u","a","r","y"," ","2","0","2","0"," ","-"," ","D","e","c",
     "e","m","b","e","r"," ","2","0","2","2" >>

presentTexts ==
  { janToLowerPresent \o << " " >> \o plainSentence,
    januaryToDecember \o << " " >> \o plainSentence }

\* chunk texts that contain the date text: after a line without dates,
\* before other words, after a range of years, after letters that run into
\* it, and after an earlier "to" range
dateTexts ==
  { join(<< plainSentence, marchToJune >>),
    marchToJune \o << " " >> \o plainSentence,
    join(<< yearRangeSentence, marchToJune >>),
    << "I","n" >> \o marchToJune \o << " " >> \o plainSentence,
    earlierToRange \o marchToJune \o << " " >> \o plainSentence }

Inputs ==
  {join(ls) : ls \in lineSeqs(MaxLines) \ {<<>>}}
    \cup {scenarioText, unbrokenText, twoLongLines, paddedText, shortParagraphs,
          minimalHeaderText, twoSectionsText, periodAtWindowEnd,
          headerWithShortTail}
    \cup experienceTexts
    \cup dateTexts
    \cup synonymTexts
    \cup presentTexts
    \cup nameAfterBlankLines

\* ------------------------------------------------------------------------
\* chunkResumeText and createSlidingWindowChunks as a state machine
\* ------------------------------------------------------------------------

VARIABLES
  text,            \* the input text of the call
  fields,          \* the record extractFields returned
  pc,              \* where the call stands
  lines,           \* text.split('\n')
  i,               \* the number (from 1) of the line the loop is at
  currentSection,
  currentChunk,    \* the accumulated lines
  chunks,          \* the chunks emitted by the line-by-line chunker
  start,           \* createSlidingWindowChunks: offset of the next window
  windowChunks,    \* createSlidingWindowChunks: its chunks
  result,          \* the list chunkResumeText returns
  currentLines,    \* history: the line numbers of the lines in currentChunk
  chunkLines,      \* history: for each emitted chunk, its line numbers
  droppedLines,    \* history: line numbers flushed below the minimum length
  windows,         \* history: <<start, end>> of each window of the fallback
  calledFallback,  \* history: createSlidingWindowChunks has been called
  rows,            \* refresh route: the resume_chunks rows of the resume
  resume,          \* refresh route: the resumes row of the resume
  rpcIndex,        \* refresh route: the index (from 0) of the insert loop
  response,        \* refresh route: the response it returned
  requests,        \* two concurrent refresh requests: where each stands
  storedFile       \* ingest route: the uploaded file is in the storage bucket

vars == << text, fields, pc, lines, i, currentSection, currentChunk, chunks,
           start, windowChunks, result, currentLines, chunkLines,
           droppedLines, windows, calledFallback, rows, resume, rpcIndex,
           response, requests, storedFile >>

routeVars == << rows, resume, rpcIndex, response, requests, storedFile >>

noFields == [name |-> null, email |-> null, experience_years |-> noNumber]

\* the resumes row before the route has updated it, and no response yet
priorResume ==
  [name |-> null, email |-> null, experience_years |-> noNumber, resume_text |-> <<>>]

noResponse == [status |-> 0, message |-> "", chunks_count |-> noNumber]

\* two requests for the same resume
Requests == {1, 2}

\* each of them before its delete step
noRequests == [r \in Requests |-> [pc |-> "delete", rpcIndex |-> 0, status |-> 0]]

Init ==
  /\ text \in Inputs
  /\ fields = noFields
  /\ pc = "fields"
  /\ lines = <<>>
  /\ i = 1
  /\ currentSection = noSection
  /\ currentChunk = <<>>
  /\ chunks = <<>>
  /\ start = 0
  /\ windowChunks = <<>>
  /\ result = <<>>
  /\ currentLines = <<>>
  /\ chunkLines = <<>>
  /\ droppedLines = {}
  /\ windows = <<>>
  /\ calledFallback = FALSE
  /\ rows = <<>>
  /\ resume = priorResume
  /\ rpcIndex = 0
  /\ response = noResponse
  /\ requests = noRequests
  /\ storedFile = FALSE

\* extractFields(text), which the routes call before chunkResumeText(text)
ExtractFields ==
  /\ pc = "fields"
  /\ fields' = extractFields(text)
  /\ pc' = "split"
  /\ UNCHANGED << text, lines, i, currentSection, currentChunk, chunks, start,
                  windowChunks, result, currentLines, chunkLines, droppedLines,
                  windows, calledFallback >>
  /\ UNCHANGED routeVars

\* the locals of chunkResumeText
StartChunking ==
  /\ pc = "split"
  /\ lines' = split(text)
  /\ i' = 1
  /\ currentSection' = noSection
  /\ currentChunk' = <<>>
  /\ chunks' = <<>>
  /\ pc' = "loop"
  /\ UNCHANGED << text, fields, start, windowChunks, result, currentLines,
                  chunkLines, droppedLines, windows, calledFallback >>
  /\ UNCHANGED routeVars

\* the object flushCurrentChunk pushes
chunkRecord(chunkText, section, company, dates) ==
  [chunk_text |-> chunkText,
   section    |-> section,
   company    |-> company,
   start_date |-> dates.start_date,
   end_date   |-> dates.end_date]

\* a variant that leaves the section out
chunkOfNoSection(chunkText, section) ==
  chunkRecord(chunkText, noSection, extractCompany(chunkText), extractDates(chunkText))

\* the chunk flushCurrentChunk builds from the text of the accumulator
chunkOf(chunkText, section) ==
  chunkRecord(chunkText, section, extractCompany(chunkText), extractDates(chunkText))

\* a variant that takes the last line alone
chunkTextOfLast(cur) == IF Len(cur) = 0 THEN <<>> ELSE trim(cur[Len(cur)])

\* currentChunk.join('\n').trim()
chunkTextOf(cur) == trim(join(cur))

\* a variant that emits a non-empty accumulator whatever its length
emitsAnyLength(cur, chunkText) == Len(cur) > 0

\* the text chunkText of a non-empty accumulator is long enough to be emitted
emits(cur, chunkText) == Len(cur) > 0 /\ Len(chunkText) >= minChunkLength

\* a variant that also gives the chunks before it the new chunk's section
pushChunkRetagging(cs, chunk) ==
  Append([k \in 1..Len(cs) |-> [cs[k] EXCEPT !.section = chunk.section]], chunk)

\* chunks.push(chunk)
pushChunk(cs, chunk) == Append(cs, chunk)

\* a variant that emits the text of every non-empty accumulator
FlushAnyLength ==
  \E chunkText \in {chunkTextOf(currentChunk)} :
     IF Len(currentChunk) > 0
       THEN /\ chunks' = pushChunk(chunks, chunkOf(chunkText, currentSection))
            /\ chunkLines' = Append(chunkLines, currentLines)
            /\ UNCHANGED droppedLines
       ELSE UNCHANGED << chunks, chunkLines, droppedLines >>

\* flushCurrentChunk() as a step: the chunk list and the history of it;
\* the accumulator is left to the caller, which empties or refills it
Flush ==
  \E chunkText \in {chunkTextOf(currentChunk)} :
     IF emits(currentChunk, chunkText)
       THEN /\ chunks' = pushChunk(chunks, chunkOf(chunkText, currentSection))
            /\ chunkLines' = Append(chunkLines, currentLines)
            /\ UNCHANGED droppedLines
       ELSE /\ droppedLines' = droppedLines \cup {currentLines[k] : k \in 1..Len(currentLines)}
            /\ UNCHANGED << chunks, chunkLines >>

NoFlush == UNCHANGED << chunks, chunkLines, droppedLines >>

\* a variant that never flushes before the line is appended
flushBeforeAppendNever(line, cur) == FALSE

\* a variant that flushes on length alone, bullet or not
flushBeforeAppendLong(line, cur) == joinLength(cur) > maxChunkLength

\* the flush condition of a non-blank line that is no header
flushBeforeAppend(line, cur) ==
  \/ isBullet(line) /\ joinLength(cur) > maxChunkLength \div 2
  \/ joinLength(cur) > maxChunkLength

\* a variant that flushes at every blank line
flushOnEveryBlank(cur) == joinLength(cur) >= 0

\* a variant that also flushes an accumulator of exactly the minimum length
flushOnBlankAtMinimum(cur) == joinLength(cur) >= minChunkLength

\* the flush condition of a blank line
flushOnBlank(cur) == joinLength(cur) > minChunkLength

\* a variant that puts the line in front
pushLineFirst(cur, line) == << line >> \o cur

\* currentChunk.push(line)
pushLine(cur, line) == Append(cur, line)

\* a variant that keeps every line that is not blank
keepsLineNotBlank(isHeader, line) == Len(line) > 0

\* !isSectionHeader && line.length > 0: the line goes to the accumulator
keepsLine(isHeader, line) == ~isHeader /\ Len(line) > 0

\* a line that is a section header: flush, switch the section, drop the line
HeaderLine ==
  /\ pc = "loop"
  /\ i <= Len(lines)
  /\ \E line \in {trim(lines[i])} :
       /\ \E h \in {headerIndex(line)} :
            /\ h # 0
            /\ currentSection' = sectionKeywords[h][2]
       /\ IF keepsLine(TRUE, line)
            THEN /\ currentChunk' = pushLine(<<>>, line)
                 /\ currentLines' = << i >>
            ELSE /\ currentChunk' = <<>>
                 /\ currentLines' = <<>>
  /\ Flush
  /\ i' = i + 1
  /\ UNCHANGED << text, fields, pc, lines, start, windowChunks, result, windows,
                  calledFallback >>
  /\ UNCHANGED routeVars

\* a non-blank line that is no header: flush first if the accumulator is
\* large, then append the line
TextLine ==
  /\ pc = "loop"
  /\ i <= Len(lines)
  /\ \E line \in {trim(lines[i])} :
       /\ ~isSectionHeader(line)
       /\ keepsLine(FALSE, line)
       /\ IF flushBeforeAppend(line, currentChunk)
            THEN /\ Flush
                 /\ currentChunk' = pushLine(<<>>, line)
                 /\ currentLines' = << i >>
            ELSE /\ NoFlush
                 /\ currentChunk' = pushLine(currentChunk, line)
                 /\ currentLines' = Append(currentLines, i)
  /\ i' = i + 1
  /\ UNCHANGED << text, fields, pc, lines, currentSection, start, windowChunks,
                  result, windows, calledFallback >>
  /\ UNCHANGED routeVars

\* a blank line: flush an accumulator longer than the minimum, keep a
\* shorter one
BlankLine ==
  /\ pc = "loop"
  /\ i <= Len(lines)
  /\ \E line \in {trim(lines[i])} :
       /\ ~isSectionHeader(line)
       /\ Len(line) = 0
  /\ IF Len(currentChunk) > 0 /\ flushOnBlank(currentChunk)
       THEN /\ Flush
            /\ currentChunk' = <<>>
            /\ currentLines' = <<>>
       ELSE /\ NoFlush
            /\ UNCHANGED << currentChunk, currentLines >>
  /\ i' = i + 1
  /\ UNCHANGED << text, fields, pc, lines, currentSection, start, windowChunks,
                  result, windows, calledFallback >>
  /\ UNCHANGED routeVars

\* the flush after the last line
FinalFlush ==
  /\ pc = "loop"
  /\ i > Len(lines)
  /\ Flush
  /\ currentChunk' = <<>>
  /\ currentLines' = <<>>
  /\ pc' = "return"
  /\ UNCHANGED << text, fields, lines, i, currentSection, start, windowChunks,
                  result, windows, calledFallback >>
  /\ UNCHANGED routeVars

\* a variant that also falls back when a single chunk was emitted
needsFallbackBelowTwo(cs) == Len(cs) <= 1

\* chunks.length === 0: the line-by-line chunker emitted nothing
needsFallback(cs) == Len(cs) = 0

ReturnChunks ==
  /\ pc = "return"
  /\ ~needsFallback(chunks)
  /\ result' = chunks
  /\ pc' = "done"
  /\ UNCHANGED << text, fields, lines, i, currentSection, currentChunk, chunks,
                  start, windowChunks, currentLines, chunkLines, droppedLines,
                  windows, calledFallback >>
  /\ UNCHANGED routeVars

\* the call of createSlidingWindowChunks(text, minChunkLength, maxChunkLength)
CallFallback ==
  /\ pc = "return"
  /\ needsFallback(chunks)
  /\ start' = 0
  /\ windowChunks' = <<>>
  /\ calledFallback' = TRUE
  /\ pc' = "sliding"
  /\ UNCHANGED << text, fields, lines, i, currentSection, currentChunk, chunks,
                  result, currentLines, chunkLines, droppedLines, windows >>
  /\ UNCHANGED routeVars

overlap == 50

\* the distance d from position f + 1 back to the last c at or before it,
\* f + 1 when there is none
backTo(s, c, f) ==
  CHOOSE d \in 0..(f + 1) :
     /\ (d = f + 1 \/ s[f - d + 1] = c)
     /\ \A j \in 0..(d - 1) : s[f - j + 1] # c

\* the 0-based index f less that distance
indexBack(s, c, f) == f - backTo(s, c, f)

\* String.lastIndexOf(c, from): the largest 0-based index at most from where
\* c stands, -1 when there is none
lastIndexOf(s, c, from) == indexBack(s, c, IF from > Len(s) - 1 THEN Len(s) - 1 ELSE from)

\* String.slice(a, b) for 0 <= a, the only case the segmenter produces
slice(s, a, b) == SubSeq(s, a + 1, IF b > Len(s) THEN Len(s) ELSE b)

\* Math.max(lastPeriod, lastNewline)
max(a, b) == IF a > b THEN a ELSE b

\* the window's end moved back to the boundary, if that leaves enough of it
atBoundary(end, st, boundary, minLength) ==
  IF boundary > st + minLength THEN boundary + 1 ELSE end

\* the end of the window that starts at st
windowEnd(s, st, minLength, maxLength) ==
  IF st + maxLength < Len(s)
    THEN atBoundary(st + maxLength, st,
                    max(lastIndexOf(s, ".", st + maxLength),
                        lastIndexOf(s, NL, st + maxLength)),
                    minLength)
    ELSE st + maxLength

\* a variant that emits every window that is not white space alone
slidingEmitsNonEmpty(chunkText, minLength) == Len(chunkText) > 0

\* a variant that wants more than the minimum length
slidingEmitsAbove(chunkText, minLength) == Len(chunkText) > minLength

\* chunkText.length >= minLength
slidingEmits(chunkText, minLength) == Len(chunkText) >= minLength

slidingChunk(chunkText) ==
  [chunk_text |-> chunkText, section |-> noSection, company |-> null,
   start_date |-> null, end_date |-> null]

\* a variant that steps back by a whole window
nextStartSameWindow(end) == end - maxChunkLength

\* start = end - overlap
nextStart(end) == end - overlap

\* one iteration of the loop of createSlidingWindowChunks
SlidingStep ==
  /\ pc = "sliding"
  /\ start < Len(text)
  /\ \E end \in {windowEnd(text, start, minChunkLength, maxChunkLength)} :
       /\ \E chunkText \in {trim(slice(text, start, end))} :
            windowChunks' = IF slidingEmits(chunkText, minChunkLength)
                              THEN Append(windowChunks, slidingChunk(chunkText))
                              ELSE windowChunks
       /\ windows' = Append(windows, << start, end >>)
       /\ start' = nextStart(end)
  /\ UNCHANGED << text, fields, pc, lines, i, currentSection, currentChunk,
                  chunks, result, currentLines, chunkLines, droppedLines,
                  calledFallback >>
  /\ UNCHANGED routeVars

\* the loop is over: return the segmenter's chunks
SlidingReturn ==
  /\ pc = "sliding"
  /\ start >= Len(text)
  /\ result' = windowChunks
  /\ pc' = "done"
  /\ UNCHANGED << text, fields, lines, i, currentSection, currentChunk, chunks,
                  start, windowChunks, currentLines, chunkLines, droppedLines,
                  windows, calledFallback >>
  /\ UNCHANGED routeVars

Next ==
  \/ ExtractFields
  \/ StartChunking
  \/ HeaderLine
  \/ TextLine
  \/ BlankLine
  \/ FinalFlush
  \/ ReturnChunks
  \/ CallFallback
  \/ SlidingStep
  \/ SlidingReturn

Spec == Init /\ [][Next]_vars

\* ------------------------------------------------------------------------
\* createSlidingWindowChunks on its own, for texts of many lengths
\* ------------------------------------------------------------------------

MaxUnits == 20

UnitLen == 97

\* n copies of unit, one after the other
repeated(unit, n) == [k \in 1..(n * Len(unit)) |-> unit[((k - 1) % Len(unit)) + 1]]

\* a sentence and a line of UnitLen characters each
unitSentence == Rep("s", UnitLen - 2) \o << ".", " " >>

unitLine == Rep("l", UnitLen - 1) \o << NL >>

\* texts without any boundary, texts of sentences and texts of lines
slidingTexts ==
  UNION { { Rep("w", UnitLen * n), repeated(unitSentence, n), repeated(unitLine, n) } :
            n \in 0..MaxUnits }

SlidingInit ==
  /\ text \in slidingTexts
  /\ fields = noFields
  /\ pc = "sliding"
  /\ lines = <<>>
  /\ i = 1
  /\ currentSection = noSection
  /\ currentChunk = <<>>
  /\ chunks = <<>>
  /\ start = 0
  /\ windowChunks = <<>>
  /\ result = <<>>
  /\ currentLines = <<>>
  /\ chunkLines = <<>>
  /\ droppedLines = {}
  /\ windows = <<>>
  /\ calledFallback = TRUE
  /\ rows = <<>>
  /\ resume = priorResume
  /\ rpcIndex = 0
  /\ response = noResponse
  /\ requests = noRequests
  /\ storedFile = FALSE

SlidingNext ==
  \/ SlidingStep
  \/ SlidingReturn

\* the loop runs on: an iteration that can be taken is taken
SlidingSpec == SlidingInit /\ [][SlidingNext]_vars /\ WF_vars(SlidingNext)

\* ------------------------------------------------------------------------
\* POST /api/refresh/:resume_id, from the parsed text to the response
\* ------------------------------------------------------------------------

MaxPriorRows == 1

\* a chunk that an earlier extraction stored for the resume
priorChunk ==
  chunkRecord(Rep("o", minChunkLength), "Summary", null,
              [start_date |-> null, end_date |-> null])

\* the resume_chunks rows of the resume when the request arrives
priorRows == UNION {[1..n -> {priorChunk}] : n \in 0..MaxPriorRows}

\* the parsed texts of the refreshed files: white space alone, a text too
\* short for any chunk, two paragraphs around a header, two lines without
\* a header, and a long text without any line break
refreshTexts ==
  { << " " >>,
    Rep("x", ShortLen),
    join(<< Rep("y", minChunkLength), <<>>, <<"s","k","i","l","l","s">>,
            Rep("y", minChunkLength) >>),
    join(<< plainSentence, marchToJune >>),
    unbrokenText }

RefreshInit ==
  /\ text \in refreshTexts
  /\ fields = noFields
  /\ pc = "parsed"
  /\ lines = <<>>
  /\ i = 1
  /\ currentSection = noSection
  /\ currentChunk = <<>>
  /\ chunks = <<>>
  /\ start = 0
  /\ windowChunks = <<>>
  /\ result = <<>>
  /\ currentLines = <<>>
  /\ chunkLines = <<>>
  /\ droppedLines = {}
  /\ windows = <<>>
  /\ calledFallback = FALSE
  /\ rows \in priorRows
  /\ resume = priorResume
  /\ rpcIndex = 0
  /\ response = noResponse
  /\ requests = noRequests
  /\ storedFile = FALSE

chunkerVars ==
  << lines, i, currentSection, currentChunk, chunks, start, windowChunks,
     result, currentLines, chunkLines, droppedLines, windows, calledFallback >>

\* NextResponse.json({ error }, { status })
errorResponse(status, message) ==
  [status |-> status, message |-> message, chunks_count |-> noNumber]

\* !parsed.text || parsed.text.trim().length === 0
CheckText ==
  /\ pc = "parsed"
  /\ IF Len(trim(text)) = 0
       THEN /\ response' = errorResponse(400, "Failed to extract text from file")
            /\ pc' = "responded"
       ELSE /\ pc' = "fields"
            /\ UNCHANGED response
  /\ UNCHANGED << text, fields, rows, resume, rpcIndex >>
  /\ UNCHANGED chunkerVars
  /\ UNCHANGED << requests, storedFile >>

\* chunks.length === 0, after chunkResumeText has returned
CheckChunks ==
  /\ pc = "done"
  /\ IF Len(result) = 0
       THEN /\ response' = errorResponse(400, "Failed to chunk resume text")
            /\ pc' = "responded"
       ELSE /\ pc' = "embed"
            /\ UNCHANGED response
  /\ UNCHANGED << text, fields, rows, resume, rpcIndex >>
  /\ UNCHANGED chunkerVars
  /\ UNCHANGED << requests, storedFile >>

\* generateChunkEmbeddings(chunks) returns some number of embeddings
GenerateEmbeddings ==
  /\ pc = "embed"
  /\ \E embeddingsLength \in 0..Len(result) :
       IF embeddingsLength # Len(result)
         THEN /\ response' = errorResponse(500, "Embedding generation failed")
              /\ pc' = "responded"
         ELSE /\ pc' = "update"
              /\ UNCHANGED response
  /\ UNCHANGED << text, fields, rows, resume, rpcIndex >>
  /\ UNCHANGED chunkerVars
  /\ UNCHANGED << requests, storedFile >>

\* the update of the resumes row, which succeeds or gives updateError
UpdateResume ==
  /\ pc = "update"
  /\ \E updateError \in BOOLEAN :
       IF updateError
         THEN /\ response' = errorResponse(500, "Failed to update resume data")
              /\ pc' = "responded"
              /\ UNCHANGED resume
         ELSE /\ resume' = [name |-> fields.name,
                            email |-> fields.email,
                            experience_years |-> fields.experience_years,
                            resume_text |-> text]
              /\ pc' = "delete"
              /\ UNCHANGED response
  /\ UNCHANGED << text, fields, rows, rpcIndex >>
  /\ UNCHANGED chunkerVars
  /\ UNCHANGED << requests, storedFile >>

\* the delete of the resume's chunk rows; deleteError is logged only
DeleteChunks ==
  /\ pc = "delete"
  /\ \E deleteError \in BOOLEAN :
       rows' = IF deleteError THEN rows ELSE <<>>
  /\ rpcIndex' = 0
  /\ pc' = "insert"
  /\ UNCHANGED << text, fields, resume, response >>
  /\ UNCHANGED chunkerVars
  /\ UNCHANGED << requests, storedFile >>

\* one turn of the insert loop; chunkError is logged only
InsertChunk ==
  /\ pc = "insert"
  /\ rpcIndex < Len(result)
  /\ \E chunkError \in BOOLEAN :
       rows' = IF chunkError THEN rows ELSE Append(rows, result[rpcIndex + 1])
  /\ rpcIndex' = rpcIndex + 1
  /\ UNCHANGED << text, fields, pc, resume, response >>
  /\ UNCHANGED chunkerVars
  /\ UNCHANGED << requests, storedFile >>

\* the success response after the loop
RespondSuccess ==
  /\ pc = "insert"
  /\ rpcIndex >= Len(result)
  /\ response' = [status |-> 200, message |-> "Resume refreshed successfully",
                  chunks_count |-> Len(result)]
  /\ pc' = "responded"
  /\ UNCHANGED << text, fields, rows, resume, rpcIndex >>
  /\ UNCHANGED chunkerVars
  /\ UNCHANGED << requests, storedFile >>

RefreshNext ==
  \/ CheckText
  \/ ExtractFields
  \/ StartChunking
  \/ HeaderLine
  \/ TextLine
  \/ BlankLine
  \/ FinalFlush
  \/ ReturnChunks
  \/ CallFallback
  \/ SlidingStep
  \/ SlidingReturn
  \/ CheckChunks
  \/ GenerateEmbeddings
  \/ UpdateResume
  \/ DeleteChunks
  \/ InsertChunk
  \/ RespondSuccess

RefreshSpec == RefreshInit /\ [][RefreshNext]_vars

\* ------------------------------------------------------------------------
\* Two refresh requests for the same resume at the same time. Both read
\* the same file and compute the same chunks, so they are taken together
\* up to the delete step; from there each takes its steps on its own.
\* Every call to the database succeeds.
\* ------------------------------------------------------------------------

\* both requests have reached the delete step with the chunks in result
atDatabaseSteps == pc = "delete"

\* request r deletes the chunk rows of the resume
ConcurrentDelete ==
  /\ atDatabaseSteps
  /\ \E r \in Requests :
       /\ requests[r].pc = "delete"
       /\ rows' = <<>>
       /\ requests' = [requests EXCEPT ![r] = [pc |-> "insert", rpcIndex |-> 0, status |-> 0]]
  /\ UNCHANGED << text, fields, pc, resume, rpcIndex, response, storedFile >>
  /\ UNCHANGED chunkerVars

\* request r inserts its next chunk
ConcurrentInsert ==
  /\ atDatabaseSteps
  /\ \E r \in Requests :
       /\ requests[r].pc = "insert"
       /\ requests[r].rpcIndex < Len(result)
       /\ rows' = Append(rows, result[requests[r].rpcIndex + 1])
       /\ requests' = [requests EXCEPT ![r].rpcIndex = @ + 1]
  /\ UNCHANGED << text, fields, pc, resume, rpcIndex, response, storedFile >>
  /\ UNCHANGED chunkerVars

\* request r returns its success response
ConcurrentRespond ==
  /\ atDatabaseSteps
  /\ \E r \in Requests :
       /\ requests[r].pc = "insert"
       /\ requests[r].rpcIndex >= Len(result)
       /\ requests' = [requests EXCEPT ![r].pc = "responded", ![r].status = 200]
  /\ UNCHANGED << text, fields, pc, rows, resume, rpcIndex, response, storedFile >>
  /\ UNCHANGED chunkerVars

ConcurrentNext ==
  \/ CheckText
  \/ ExtractFields
  \/ StartChunking
  \/ HeaderLine
  \/ TextLine
  \/ BlankLine
  \/ FinalFlush
  \/ ReturnChunks
  \/ CallFallback
  \/ SlidingStep
  \/ SlidingReturn
  \/ CheckChunks
  \/ GenerateEmbeddings
  \/ UpdateResume
  \/ ConcurrentDelete
  \/ ConcurrentInsert
  \/ ConcurrentRespond

ConcurrentSpec == RefreshInit /\ [][ConcurrentNext]_vars

\* ------------------------------------------------------------------------
\* POST /api/ingest for a DOCX file, from the request to the response. A
\* PDF file takes its fields and chunks from the Python service instead;
\* the steps from the bucket check on are the same for both.
\* ------------------------------------------------------------------------

\* the extensions of the uploaded files: one supported, one not
ingestExtensions == {"docx", "txt"}

supportedExtensions == {"pdf", "docx", "doc"}

\* the texts parseDOCX gives for the uploaded files
ingestTexts == refreshTexts \cup {twoSectionsText, periodAtWindowEnd}

IngestInit ==
  /\ text \in ingestTexts
  /\ fields = noFields
  /\ pc = "ingest"
  /\ lines = <<>>
  /\ i = 1
  /\ currentSection = noSection
  /\ currentChunk = <<>>
  /\ chunks = <<>>
  /\ start = 0
  /\ windowChunks = <<>>
  /\ result = <<>>
  /\ currentLines = <<>>
  /\ chunkLines = <<>>
  /\ droppedLines = {}
  /\ windows = <<>>
  /\ calledFallback = FALSE
  /\ rows = <<>>
  /\ resume = priorResume
  /\ rpcIndex = 0
  /\ response = noResponse
  /\ requests = noRequests
  /\ storedFile = FALSE

\* the step returns the error response and leaves the rest as it is
respondsError(status, message) ==
  /\ response' = errorResponse(status, message)
  /\ pc' = "responded"

\* the file type check
CheckFile ==
  /\ pc = "ingest"
  /\ \E extension \in ingestExtensions :
       IF extension \notin supportedExtensions
         THEN respondsError(400, "Unsupported file type. Only PDF and DOCX are supported.")
         ELSE pc' = "parse" /\ UNCHANGED response
  /\ UNCHANGED << text, fields, rows, resume, rpcIndex >>
  /\ UNCHANGED chunkerVars
  /\ UNCHANGED << requests, storedFile >>

\* parseDOCX(buffer), which can throw, and extractFields(rawText)
ParseDocx ==
  /\ pc = "parse"
  /\ \E parseError \in BOOLEAN :
       IF parseError
         THEN respondsError(400, "Failed to parse DOCX file") /\ UNCHANGED fields
         ELSE /\ fields' = extractFields(text)
              /\ pc' = "bucket"
              /\ UNCHANGED response
  /\ UNCHANGED << text, rows, resume, rpcIndex >>
  /\ UNCHANGED chunkerVars
  /\ UNCHANGED << requests, storedFile >>

\* the bucket is there, or is created, or cannot be created
EnsureBucket ==
  /\ pc = "bucket"
  /\ \E bucketExists \in BOOLEAN, createBucketError \in BOOLEAN :
       IF ~bucketExists /\ createBucketError
         THEN respondsError(500, "Storage bucket does not exist")
         ELSE pc' = "upload" /\ UNCHANGED response
  /\ UNCHANGED << text, fields, rows, resume, rpcIndex >>
  /\ UNCHANGED chunkerVars
  /\ UNCHANGED << requests, storedFile >>

\* the upload of the file; after it chunkResumeText(rawText) is called
UploadFile ==
  /\ pc = "upload"
  /\ \E uploadError \in BOOLEAN :
       IF uploadError
         THEN respondsError(500, "Failed to upload file to storage") /\ UNCHANGED storedFile
         ELSE /\ storedFile' = TRUE
              /\ pc' = "split"
              /\ UNCHANGED response
  /\ UNCHANGED << text, fields, rows, resume, rpcIndex, requests >>
  /\ UNCHANGED chunkerVars

\* chunks.length === 0, after chunkResumeText has returned
IngestCheckChunks ==
  /\ pc = "done"
  /\ IF Len(result) = 0
       THEN respondsError(400, "Failed to chunk resume text")
       ELSE pc' = "embed" /\ UNCHANGED response
  /\ UNCHANGED << text, fields, rows, resume, rpcIndex >>
  /\ UNCHANGED chunkerVars
  /\ UNCHANGED << requests, storedFile >>

\* generateChunkEmbeddings(chunks) returns some number of embeddings
IngestEmbeddings ==
  /\ pc = "embed"
  /\ \E embeddingsLength \in 0..Len(result) :
       IF embeddingsLength # Len(result)
         THEN respondsError(500, "Embedding generation failed")
         ELSE pc' = "resume" /\ UNCHANGED response
  /\ UNCHANGED << text, fields, rows, resume, rpcIndex >>
  /\ UNCHANGED chunkerVars
  /\ UNCHANGED << requests, storedFile >>

\* the insert of the resumes row; on its error the uploaded file is
\* removed, by a call whose own outcome is not looked at
InsertResume ==
  /\ pc = "resume"
  /\ \E resumeError \in BOOLEAN, removeError \in BOOLEAN :
       IF resumeError
         THEN /\ storedFile' = removeError
              /\ respondsError(500, "Failed to save resume data")
              /\ UNCHANGED resume
         ELSE /\ resume' = [name |-> fields.name,
                            email |-> fields.email,
                            experience_years |-> fields.experience_years,
                            resume_text |-> text]
              /\ pc' = "chunks"
              /\ UNCHANGED << response, storedFile >>
  /\ UNCHANGED << text, fields, rows, rpcIndex, requests >>
  /\ UNCHANGED chunkerVars

\* one turn of the insert loop; chunkError is logged only
IngestInsertChunk ==
  /\ pc = "chunks"
  /\ rpcIndex < Len(result)
  /\ \E chunkError \in BOOLEAN :
       rows' = IF chunkError THEN rows ELSE Append(rows, result[rpcIndex + 1])
  /\ rpcIndex' = rpcIndex + 1
  /\ UNCHANGED << text, fields, pc, resume, response >>
  /\ UNCHANGED chunkerVars
  /\ UNCHANGED << requests, storedFile >>

\* the success response after the loop
IngestRespond ==
  /\ pc = "chunks"
  /\ rpcIndex >= Len(result)
  /\ response' = [status |-> 200, message |-> "Resume ingested successfully",
                  chunks_count |-> Len(result)]
  /\ pc' = "responded"
  /\ UNCHANGED << text, fields, rows, resume, rpcIndex >>
  /\ UNCHANGED chunkerVars
  /\ UNCHANGED << requests, storedFile >>

IngestNext ==
  \/ CheckFile
  \/ ParseDocx
  \/ EnsureBucket
  \/ UploadFile
  \/ StartChunking
  \/ HeaderLine
  \/ TextLine
  \/ BlankLine
  \/ FinalFlush
  \/ ReturnChunks
  \/ CallFallback
  \/ SlidingStep
  \/ SlidingReturn
  \/ IngestCheckChunks
  \/ IngestEmbeddings
  \/ InsertResume
  \/ IngestInsertChunk
  \/ IngestRespond

IngestSpec == IngestInit /\ [][IngestNext]_vars

\* ------------------------------------------------------------------------
\* Properties
\* ------------------------------------------------------------------------

\* the line-by-line pass is over
primaryDone == pc \in {"return", "sliding", "done"}

\* the trimmed line j of the input
trimmedLine(j) == trim(lines[j])

isBlankLine(j) == Len(trimmedLine(j)) = 0

isHeaderLine(j) == isSectionHeader(trimmedLine(j))

\* the trimmed lines whose numbers are ls
linesAt(ls) == [m \in 1..Len(ls) |-> trimmedLine(ls[m])]

\* the texts of a chunk list
textsOf(cs) == [k \in 1..Len(cs) |-> cs[k].chunk_text]

\* the chunks of the chunk list cs that hold line j, as <<chunk, position>>
holders(j) ==
  {km \in {<<k, m>> : k \in 1..Len(chunkLines), m \in 1..Len(lines)} :
     km[2] <= Len(chunkLines[km[1]]) /\ chunkLines[km[1]][km[2]] = j}

\* the numbers of the lines among 1..n that satisfy keep, in order
lineNumbers(n, keep(_)) ==
  [m \in 1..Cardinality({j \in 1..n : keep(j)}) |->
     CHOOSE j \in 1..n : keep(j) /\ Cardinality({x \in 1..j : keep(x)}) = m]

\* C1: every chunk emitted through the line-by-line (primary) path has a
\* text of at least minChunkLength and at most maxChunkLength characters
C1_PrimaryChunkWithinBounds ==
  \A k \in 1..Len(chunks) :
     /\ Len(chunks[k].chunk_text) >= minChunkLength
     /\ Len(chunks[k].chunk_text) <= maxChunkLength

\* C2: the sliding-window segmenter is called if and only if the primary
\* chunker emitted no chunk, and the returned list is the primary list or
\* the segmenter's list, never a mix of the two
C2_FallbackIffNoPrimaryChunk ==
  /\ calledFallback => Len(chunks) = 0
  /\ pc = "sliding" => calledFallback
  /\ ~calledFallback => windowChunks = <<>> /\ windows = <<>>
  /\ pc = "done" =>
       /\ calledFallback <=> Len(chunks) = 0
       /\ IF calledFallback THEN result = windowChunks ELSE result = chunks

\* the segmenter was called and returned chunks
C2_FallbackReturned == pc = "done" /\ calledFallback /\ Len(result) > 0

\* the input of C3: ScenarioLen characters, no blank line, no header line,
\* every line at least maxChunkLength long
unbrokenLongLines ==
  /\ Len(text) = ScenarioLen
  /\ \A j \in 1..Len(lines) :
        ~isBlankLine(j) /\ ~isHeaderLine(j) /\ Len(lines[j]) >= maxChunkLength

\* C3: for an input of ScenarioLen characters with no blank line, no header
\* line and only lines of at least maxChunkLength characters, the result is
\* the sliding-window segmenter's and every chunk is at most maxChunkLength long
C3_LongLinesUseSlidingWindow ==
  (pc = "done" /\ unbrokenLongLines) =>
     /\ calledFallback
     /\ \A k \in 1..Len(result) : Len(result[k].chunk_text) <= maxChunkLength

\* lines a..b are a paragraph: non-blank lines between blank lines or the ends
isParagraph(a, b) ==
  /\ a <= b
  /\ \A j \in a..b : ~isBlankLine(j)
  /\ a = 1 \/ isBlankLine(a - 1)
  /\ b = Len(lines) \/ isBlankLine(b + 1)

\* the input of C4: no header line, every paragraph shorter than
\* minChunkLength, more than maxChunkLength characters in all
shortParagraphsOnly ==
  /\ Len(text) > maxChunkLength
  /\ \A j \in 1..Len(lines) : ~isHeaderLine(j)
  /\ \A a, b \in 1..Len(lines) :
        isParagraph(a, b) =>
           joinLength([m \in 1..(b - a + 1) |-> trimmedLine(a + m - 1)]) < minChunkLength

\* the length of the non-blank lines of the input joined by line breaks
nonBlankLength == joinLength(linesAt(lineNumbers(Len(lines), LAMBDA j : ~isBlankLine(j))))

\* C4 as stated: an input without header lines whose paragraphs are each
\* shorter than minChunkLength and that is longer than maxChunkLength is
\* chunked by the sliding-window fallback, and the result is not empty
C4_ShortParagraphsUseFallback ==
  (pc = "done" /\ shortParagraphsOnly) => calledFallback /\ Len(result) > 0

\* C4 amended: for such an input whose non-blank lines, joined, have at
\* least minChunkLength characters, the primary chunker merges paragraphs
\* across blank lines and emits chunks itself: the fallback is not called
\* and the result, the primary chunks, is not empty
C4_ShortParagraphsMerge ==
  (pc = "done" /\ shortParagraphsOnly /\ nonBlankLength >= minChunkLength) =>
     ~calledFallback /\ result = chunks /\ Len(result) > 0

\* such an input has been chunked, into chunks of several paragraphs
C4_ParagraphsMerged ==
  /\ pc = "done"
  /\ shortParagraphsOnly
  /\ nonBlankLength >= minChunkLength
  /\ Len(result) > 1
  /\ \A k \in 1..Len(chunkLines) : Len(chunkLines[k]) > 1

\* C5 as stated: every input whose trimmed length is at least
\* minChunkLength yields at least one chunk
C5_EmptyOnlyIfShort ==
  (pc = "done" /\ Len(trim(text)) >= minChunkLength) => Len(result) > 0

\* C5 amended: every input of at most maxChunkLength characters whose
\* trimmed length is at least minChunkLength yields at least one chunk
C5_EmptyOnlyIfShortWithinWindow ==
  (pc = "done" /\ Len(text) <= maxChunkLength /\ Len(trim(text)) >= minChunkLength) =>
     Len(result) > 0

\* an input of one window, of which the primary chunker emitted nothing, has
\* got its chunk from the segmenter
C5_SingleWindowChunk ==
  /\ pc = "done"
  /\ Len(text) <= maxChunkLength
  /\ Len(trim(text)) >= minChunkLength
  /\ calledFallback
  /\ Len(result) = 1

\* C6: for an input shorter than minChunkLength, the empty one included,
\* chunkResumeText returns the empty list, and it returns it from the
\* fallback, having run the primary chunker and then the segmenter
C6_ShortInputGivesEmptyList ==
  Len(text) < minChunkLength =>
     /\ chunks = <<>>
     /\ windowChunks = <<>>
     /\ pc = "done" => calledFallback /\ result = <<>>

\* a non-empty input shorter than minChunkLength has been returned for
C6_ShortInputReturned ==
  /\ pc = "done"
  /\ Len(text) > 0
  /\ Len(text) < minChunkLength
  /\ calledFallback
  /\ Len(windows) > 0
  /\ result = <<>>

\* the texts of the windows that are long enough to be chunks, in order
windowTexts ==
  SelectSeq([w \in 1..Len(windows) |-> trim(slice(text, windows[w][1], windows[w][2]))],
            LAMBDA t : Len(t) >= minChunkLength)

\* C7: chunks are in source order: a primary chunk holds lines of the input
\* in their order, and every line of a chunk precedes every line of the
\* chunks after it; the start offsets of successive windows of the
\* segmenter increase strictly, and its chunks are in the order of its windows
C7_ChunkOrderIsSourceOrder ==
  /\ Len(chunkLines) = Len(chunks)
  /\ \A k \in 1..Len(chunks) :
        /\ split(chunks[k].chunk_text) = linesAt(chunkLines[k])
        /\ \A m \in 1..(Len(chunkLines[k]) - 1) : chunkLines[k][m] < chunkLines[k][m + 1]
  /\ \A k1, k2 \in 1..Len(chunkLines) :
        k1 < k2 => \A m1 \in 1..Len(chunkLines[k1]), m2 \in 1..Len(chunkLines[k2]) :
                      chunkLines[k1][m1] < chunkLines[k2][m2]
  /\ \A w \in 1..(Len(windows) - 1) : windows[w][1] < windows[w + 1][1]
  /\ textsOf(windowChunks) = windowTexts

\* two primary chunks have been returned, the first of several lines
C7_TwoChunksReturned ==
  /\ pc = "done"
  /\ ~calledFallback
  /\ Len(result) >= 2
  /\ Len(chunkLines[1]) >= 2

\* C8 as stated: in the primary path the texts of the returned chunks,
\* joined, are the non-blank lines of the input joined: no line but a
\* blank one is lost
C8_OnlyBlankLinesLost ==
  (pc = "done" /\ ~calledFallback) =>
     join(textsOf(result)) =
        join(linesAt(lineNumbers(Len(lines), LAMBDA j : ~isBlankLine(j))))

\* line j is kept: it is not blank, not a header, and was not flushed in an
\* accumulator shorter than minChunkLength
isKeptLine(j) == ~isBlankLine(j) /\ ~isHeaderLine(j) /\ j \notin droppedLines

\* C8 amended: in the primary path the texts of the returned chunks,
\* joined, are the trimmed lines of the input joined, up to the removal of
\* blank lines, of header lines and of the lines flushed in an accumulator
\* shorter than minChunkLength; each remaining line is in exactly one chunk
\* and a removed line is in none
C8_LinesLostAreBlankHeaderOrShort ==
  primaryDone =>
     /\ \A j \in 1..Len(lines) :
           Cardinality(holders(j)) = IF isKeptLine(j) THEN 1 ELSE 0
     /\ join(textsOf(chunks)) = join(linesAt(lineNumbers(Len(lines), isKeptLine)))
     /\ (pc = "done" /\ ~calledFallback) => result = chunks

\* chunks have been returned for an input of which a header line and a
\* line flushed too short are lost
C8_ShortLineLost ==
  /\ pc = "done"
  /\ ~calledFallback
  /\ Len(result) > 0
  /\ droppedLines # {}
  /\ \E j \in 1..Len(lines) : isHeaderLine(j)

JohnSmith == << "J","o","h","n"," ","S","m","i","t","h" >>

JohnEmail == << "j","o","h","n","@","x",".","c","o","m" >>

AcmeCorp == << "A","c","m","e"," ","C","o","r","p" >>

Jan2020 == << "J","a","n"," ","2","0","2","0" >>

\* C10: for the scenario input extractFields gives the name John Smith and
\* the email john@x.com, and chunkResumeText returns exactly one chunk, of
\* section Experience, company Acme Corp, start date Jan 2020, no end date
C10_ScenarioChunk ==
  (text = scenarioText /\ pc = "done") =>
     /\ fields.name = JohnSmith
     /\ fields.email = JohnEmail
     /\ Len(result) = 1
     /\ result[1].section = "Experience"
     /\ result[1].company = AcmeCorp
     /\ result[1].start_date = Jan2020
     /\ result[1].end_date = null

\* C11 as stated: for every text that contains "5+ years of experience"
\* anywhere, extractFields gives experience_years = 5
C11_FivePlusYearsAnywhere ==
  (pc # "fields" /\ includes(text, fivePlusYears)) => fields.experience_years = 5

\* the phrase stands at position p, no digit stands before it, and the
\* experience pattern matches nowhere before it
firstExperienceMention(p) ==
  /\ LitAt(text, p, fivePlusYears)
  /\ p = 1 \/ text[p - 1] \notin DigitSet
  /\ \A q \in 1..(p - 1) : ~experienceAt(text, q)

\* C11 amended: for every text in which "5+ years of experience" occurs
\* with no digit just before it and no earlier match of the experience
\* pattern (a number, "year" or "years", "experience" or "exp"),
\* extractFields gives experience_years = 5
C11_FirstMentionFivePlusYears ==
  (pc # "fields" /\ \E p \in 1..Len(text) : firstExperienceMention(p)) =>
     fields.experience_years = 5

\* the fields of a text with the phrase after other words have been extracted
C11_PhraseAfterWords ==
  /\ pc = "done"
  /\ \E p \in 2..Len(text) : firstExperienceMention(p)
  /\ fields.experience_years = 5

March2019 == << "M","a","r","c","h"," ","2","0","1","9" >>

June2021 == << "J","u","n","e"," ","2","0","2","1" >>

\* the chunk has the dates of the date text
hasMarchToJune(chunk) == chunk.start_date = March2019 /\ chunk.end_date = June2021

\* C12 as stated: a chunk whose text contains "March 2019 to June 2021" has
\* start_date "March 2019" and end_date "June 2021", whatever else it contains
C12_ToRangeAnywhere ==
  \A k \in 1..Len(chunks) :
     includes(chunks[k].chunk_text, marchToJune) => hasMarchToJune(chunks[k])

\* the date text stands at position p of s with no word character before
\* it, none of the three patterns with a dash matches s, and the "to"
\* pattern matches at no year before the date text's first one
firstToRange(s, p) ==
  /\ LitAt(s, p, marchToJune)
  /\ p = 1 \/ s[p - 1] \notin WordSet
  /\ ~datePattern1(s).ok
  /\ ~datePattern2(s).ok
  /\ ~datePattern3(s).ok
  /\ \A y \in Years(s) : y < p + 6 => ~wordYearRangeAt(s, y, toSep(s, y + 4), 1, Len(s))

\* C12 amended: a chunk whose text contains "March 2019 to June 2021" with
\* no word character just before it, no date range written with a dash
\* (the first three patterns) anywhere and no earlier range written with
\* "to", has start_date "March 2019" and end_date "June 2021"
C12_FirstToRange ==
  \A k \in 1..Len(chunks) :
     (\E p \in 1..Len(chunks[k].chunk_text) : firstToRange(chunks[k].chunk_text, p)) =>
        hasMarchToJune(chunks[k])

\* a chunk with words before the date text has been returned with its dates
C12_ToRangeAfterWords ==
  /\ pc = "done"
  /\ \E k \in 1..Len(result) :
        /\ \E p \in 2..Len(result[k].chunk_text) : firstToRange(result[k].chunk_text, p)
        /\ hasMarchToJune(result[k])

\* C13: a chunk that has been appended to the output list is never changed,
\* removed or moved by a later step: every step leaves the list as it is
\* or appends one chunk to it
C13_EmittedChunksAreFinal ==
  [][ /\ Len(chunks') >= Len(chunks)
      /\ Len(chunks') <= Len(chunks) + 1
      /\ SubSeq(chunks', 1, Len(chunks)) = chunks ]_vars

\* two chunks have been returned, the second emitted under another section
\* than the first
C13_SectionChangedAfterChunk ==
  /\ pc = "done"
  /\ Len(chunks) >= 2
  /\ chunks[1].section # chunks[2].section
  /\ result = chunks

\* C14: once the refresh route has returned its success response, the
\* chunk rows stored for the resume are exactly the chunks of the
\* re-extraction, whatever the delete and the insert calls gave
C14_RefreshStoresExactlyNewChunks ==
  response.status = 200 => rows = result

\* no line of the text of a chunk of cs is classified as a header
headerFree(cs) ==
  \A k \in 1..Len(cs) :
     \E chunkLinesOf \in {split(cs[k].chunk_text)} :
        \A m \in 1..Len(chunkLinesOf) : ~isSectionHeader(trim(chunkLinesOf[m]))

\* C15 as stated: no line that is classified as a header is a line of the
\* text of a chunk that chunkResumeText returns, whatever the input
C15_NoHeaderLineInAnyChunk == pc = "done" => headerFree(result)

\* C15 amended: no line that is classified as a header is a line of the
\* text of a chunk of the primary path, so of a returned chunk when the
\* fallback was not called
C15_NoHeaderLineInPrimaryChunk ==
  /\ headerFree(chunks)
  /\ (pc = "done" /\ ~calledFallback) => result = chunks

\* two primary chunks have been returned, a header line between them
C15_HeaderBetweenChunks ==
  /\ pc = "done"
  /\ ~calledFallback
  /\ Len(result) >= 2
  /\ \E j \in 1..Len(lines) :
        /\ isHeaderLine(j)
        /\ chunkLines[1][Len(chunkLines[1])] < j
        /\ j < chunkLines[2][1]

\* the section of the last header line before line j, noSection if none
sectionBefore(j) ==
  leftmost({-h : h \in {h \in 1..(j - 1) : isHeaderLine(h)}},
           LAMBDA h : sectionKeywords[headerIndex(trimmedLine(-h))][2],
           noSection)

C17_SynonymLineSetsItsSection ==
  (pc = "loop" /\ i > 1) =>
     \E lowerLine \in {toLowerCase(trimmedLine(i - 1))} :
        \A k \in 1..Len(sectionKeywords) :
           lowerLine = sectionKeywords[k][1] =>
              /\ isSectionHeader(lowerLine)
              /\ currentSection = sectionKeywords[k][2]

\* C18: when the primary chunker has emitted a chunk and the accumulator
\* at the end of the input is shorter than minChunkLength, the final flush
\* emits nothing, and the lines of that accumulator are in no chunk that
\* is returned
C18_ShortTrailingTextIsDropped ==
  /\ [][ (/\ pc = "loop"
          /\ i > Len(lines)
          /\ Len(chunks) >= 1
          /\ Len(chunkTextOf(currentChunk)) < minChunkLength)
         => /\ chunks' = chunks
            /\ currentChunk' = <<>>
            /\ \A m \in 1..Len(currentLines) : currentLines[m] \in droppedLines' ]_vars
  /\ [](pc = "done" /\ Len(chunks) >= 1 =>
          /\ result = chunks
          /\ \A j \in droppedLines : holders(j) = {})

\* chunks have been returned of an input whose last line was in the
\* accumulator at its end and was dropped with it
C18_LastLineDropped ==
  /\ pc = "done"
  /\ Len(result) >= 1
  /\ result = chunks
  /\ Len(lines) \in droppedLines
  /\ ~isBlankLine(Len(lines))
  /\ ~isHeaderLine(Len(lines))

\* the loop is at line i, which is blank
atBlankLine == pc = "loop" /\ i <= Len(lines) /\ isBlankLine(i)

\* the loop is at line i, which is neither blank nor a header
atTextLine == pc = "loop" /\ i <= Len(lines) /\ ~isBlankLine(i) /\ ~isHeaderLine(i)

\* the step appends one chunk, whose text is the joined accumulator
emitsAccumulator ==
  /\ Len(chunks') = Len(chunks) + 1
  /\ SubSeq(chunks', 1, Len(chunks)) = chunks
  /\ chunks'[Len(chunks')].chunk_text = join(currentChunk)
  /\ chunks'[Len(chunks')].section = currentSection

\* C19: at a blank line with a non-empty accumulator, an accumulator that
\* is, joined, longer than minChunkLength is emitted as exactly one chunk
\* and emptied; a shorter one, and one of exactly minChunkLength, is left
\* as it is, and so are currentSection and the chunk list
C19_BlankLineFlushesAboveMinimum ==
  [][ (atBlankLine /\ Len(currentChunk) > 0) =>
         IF Len(join(currentChunk)) > minChunkLength
           THEN emitsAccumulator /\ currentChunk' = <<>> /\ currentSection' = currentSection
           ELSE UNCHANGED << currentChunk, currentSection, chunks >> ]_vars

\* a blank line has been passed with an accumulator of exactly
\* minChunkLength characters, which is still there
C19_BlankLineAtMinimum ==
  /\ pc = "loop"
  /\ i > 1
  /\ isBlankLine(i - 1)
  /\ Len(currentChunk) > 0
  /\ Len(join(currentChunk)) = minChunkLength
  /\ chunks = <<>>

\* C20: at a line that is neither blank nor a header, the accumulator is
\* flushed before the line is appended if and only if the line is a bullet
\* and the joined accumulator is longer than half of maxChunkLength, or
\* the joined accumulator is longer than maxChunkLength; either way the
\* line is then the last element of the accumulator and currentSection
\* is unchanged
C20_TextLineFlushesLargeAccumulator ==
  [][ atTextLine =>
         /\ IF \/ isBullet(trimmedLine(i)) /\ 2 * Len(join(currentChunk)) > maxChunkLength
               \/ Len(join(currentChunk)) > maxChunkLength
              THEN emitsAccumulator /\ currentChunk' = << trimmedLine(i) >>
              ELSE chunks' = chunks /\ currentChunk' = Append(currentChunk, trimmedLine(i))
         /\ currentSection' = currentSection ]_vars

\* a bullet line has flushed an accumulator of more than half of
\* maxChunkLength and at most maxChunkLength characters, and is alone in
\* the accumulator
C20_BulletFlushedHalfFull ==
  /\ pc = "loop"
  /\ i > 1
  /\ isBullet(trimmedLine(i - 1))
  /\ ~isHeaderLine(i - 1)
  /\ currentChunk = << trimmedLine(i - 1) >>
  /\ Len(chunks) >= 1
  /\ 2 * Len(chunks[Len(chunks)].chunk_text) > maxChunkLength
  /\ Len(chunks[Len(chunks)].chunk_text) <= maxChunkLength
  /\ chunkLines[Len(chunks)][Len(chunkLines[Len(chunks)])] = i - 2

\* C21: the end of every window of the sliding-window segmenter is more
\* than minChunkLength and at most maxChunkLength after its start, and so
\* no chunk of the segmenter is longer than maxChunkLength
C21_WindowWithinBounds ==
  /\ \A w \in 1..Len(windows) :
        /\ windows[w][1] + minChunkLength < windows[w][2]
        /\ windows[w][2] <= windows[w][1] + maxChunkLength
  /\ \A k \in 1..Len(windowChunks) :
        Len(windowChunks[k].chunk_text) <= maxChunkLength

\* C22: the sliding-window segmenter terminates on every text: every
\* iteration of its loop makes start larger, it returns in the end, and
\* when it has returned start is at or past the end of the text
C22_SegmenterTerminates ==
  /\ [][(pc = "sliding" /\ pc' = "sliding") => start' > start]_vars
  /\ <>(pc = "done")
  /\ [](pc = "done" => start >= Len(text))

\* the segmenter has returned after at least three iterations
C22_SeveralWindows ==
  /\ pc = "done"
  /\ calledFallback
  /\ Len(windows) >= 3
  /\ result = windowChunks

\* the end token of the match that decides the dates of s, null if no
\* pattern matches
endToken(s) ==
  IF Years(s) = {} THEN null
  ELSE With(firstDateMatch(s), LAMBDA m : IF m.ok THEN trim(m.g2) ELSE null)

\* the token is the word Present or Current in some letter case
isPresentWord(token) ==
  toLowerCase(token) \in {toLowerCase(Present), toLowerCase(Current)}

\* C23: when the end token of the deciding match is the word Present or
\* Current, in whatever letter case, end_date is absent
C23_PresentGivesNoEndDate ==
  \A k \in 1..Len(chunks) :
     isPresentWord(endToken(chunks[k].chunk_text)) => chunks[k].end_date = null

January2020 == << "J","a","n","u","a","r","y"," ","2","0","2","0" >>

December2022 == << "D","e","c","e","m","b","e","r"," ","2","0","2","2" >>

\* C24: a chunk whose text begins with the range of full month names
\* "January 2020 - December 2022" has start_date "January 2020" and
\* end_date "December 2022"
C24_FullMonthRangeGivesBothDates ==
  \A k \in 1..Len(chunks) :
     startsWith(chunks[k].chunk_text, januaryToDecember) =>
        /\ chunks[k].start_date = January2020
        /\ chunks[k].end_date = December2022

\* the trimmed non-blank lines of the text, and the first five of them
nonBlankLines(s) == SelectSeq(trimAll(split(s)), LAMBDA line : Len(line) > 0)

\* C25: if one of the first five non-blank lines of the text is two to
\* four capitalized words, the first such line is the name, however many
\* blank lines stand before or between those lines
C25_NameAmongFirstFiveNonBlank ==
  pc = "split" =>
     With(firstFive(nonBlankLines(text)), LAMBDA ls :
       \A k \in 1..Len(ls) :
          (isNameLine(ls[k]) /\ \A j \in 1..(k - 1) : ~isNameLine(ls[j])) =>
             fields.name = ls[k])

\* every chunk of cs has, trimmed, at least minChunkLength characters
longEnough(cs) ==
  \A k \in 1..Len(cs) : Len(trim(cs[k].chunk_text)) >= minChunkLength

\* C26: every chunk of the primary path, of the segmenter and of the
\* returned list has a text of at least minChunkLength characters when
\* trimmed; the last window of the segmenter is no exception
C26_EveryChunkLongEnough ==
  /\ longEnough(chunks)
  /\ longEnough(windowChunks)
  /\ longEnough(result)

\* the segmenter has returned a chunk and has left out its last window,
\* which was shorter than minChunkLength
C26_ShortTailLeftOut ==
  /\ pc = "done"
  /\ calledFallback
  /\ Len(result) >= 1
  /\ Len(windows) = Len(result) + 1
  /\ windows[Len(windows)][1] < Len(text)
  /\ Len(text) - windows[Len(windows)][1] < minChunkLength

\* the sequence without its last element
front(ls) == SubSeq(ls, 1, Len(ls) - 1)

\* C27: the accumulator without the line appended last is, joined, at most
\* maxChunkLength characters long, and so is every chunk of the primary
\* path without its last line
C27_OnlyLastLineExceedsMaximum ==
  /\ Len(join(front(currentChunk))) <= maxChunkLength
  /\ \A k \in 1..Len(chunks) :
        Len(join(front(split(chunks[k].chunk_text)))) <= maxChunkLength

\* a chunk of several lines that is longer than maxChunkLength has been
\* returned
C27_LongChunkOfSeveralLines ==
  /\ pc = "done"
  /\ result = chunks
  /\ \E k \in 1..Len(chunks) :
        /\ Len(chunks[k].chunk_text) > maxChunkLength
        /\ Len(chunkLines[k]) >= 2

\* how many rows of rs hold the chunk c
rowCount(rs, c) == Cardinality({k \in 1..Len(rs) : rs[k] = c})

\* C28: when two concurrent refresh requests for a resume have both
\* returned, the chunk rows of the resume are one set of the re-extracted
\* chunks: each chunk is stored as often as it was produced, and nothing
\* else is stored
C28_ConcurrentRefreshLeavesOneSet ==
  (\A r \in Requests : requests[r].pc = "responded") =>
     /\ Len(rows) = Len(result)
     /\ \A k \in 1..Len(result) : rowCount(rows, result[k]) = rowCount(result, result[k])

\* C29: when the ingest route has returned an error response, the
\* uploaded file is not in storage: if the upload had succeeded, the file
\* has been removed again
C29_FailedIngestLeavesNoFile ==
  (pc = "responded" /\ response.status # 200) => ~storedFile

\* C30: when the ingest route has returned its success response with
\* chunks_count = n, the chunk rows of the new resume are the n produced
\* chunks, in their order
C30_IngestStoresEveryChunk ==
  (pc = "responded" /\ response.status = 200) =>
     /\ response.chunks_count = Len(result)
     /\ rows = result

====
